---- MODULE Spec2Model ----
(***************************************************************************)
(* Task Management API: the ownership-scoped Todo / Item store, its        *)
(* business-logic functions (app/business_logic) and the HTTP resources    *)
(* (app/resources) that call them.                                         *)
(*                                                                         *)
(* The database is the pair (todos, items): two tables keyed by id.  One   *)
(* request is one action: query, mutation of the session, one commit.  A   *)
(* commit either succeeds or raises (commit_ok); a raised commit leaves    *)
(* the tables as they were (the transaction is rolled back, the scoped     *)
(* session is discarded when the request ends).                            *)
(***************************************************************************)
EXTENDS Integers, FiniteSets, Sequences, TLC

\* ---------------------------------------------------------------- bounds
NumUsers == 2
MaxTodos == 2
MaxItems == 2

\* an id no row ever has (the tests use 999 for "does not exist")
NoSuchId == 999

\* the authentication layer
MaxAccounts == 2      \* rows of the users table
NumClients  == 2      \* clients whose register_user calls may interleave
MaxLogins   == 1      \* successful logins (each issues two tokens)
MaxRefreshes == 1     \* successful calls of POST /auth/refresh

UserIds   == 1..MaxAccounts
Clients   == 1..NumClients
Usernames == {"alice", "bob"}
Emails    == {"a@x.com", "b@x.com"}
Passwords == {"pw1", "pw2"}
Salts     == {"s1", "s2"}

Users   == 1..NumUsers
TodoIds == 1..MaxTodos
ItemIds == 1..MaxItems

\* ---------------------------------------------------------------- values
None   == "None"          \* Python None, where a string is expected
NoneId == 0               \* Python None, where a row is expected

VALID_STATUSES == {"Pending", "Partially Completed", "Completed"}

DefaultTodoStatus == "In Progress"
DefaultItemStatus == "Pending"

\* text of str(e) for the exception a failed commit raises
ExcText == "str(e)"

MsgTodoNotFound     == "Todo not found"
MsgTodoForbidden    == "Forbidden: Not your Todo or doesn't exist"
MsgTodoNoPermission == "Todo not found or you don't have permission"
MsgItemNoPermission == "Item not found or you don't have permission"
MsgNoMatchingTodos  == "No matching todos found"
MsgMissingStatus    == "Missing status for bulk update"
MsgInvalidAction    == "Invalid action"
MsgInvalidStatus    == "Invalid status. Must be one of ['Pending', 'Partially Completed', 'Completed']"
MsgInvalidItemAction == "Invalid action. Must be one of ['Pending', 'Partially Completed', 'Completed'] or 'delete'"
MsgMissingTitle     == "Missing field: title"
MsgMissingBody      == "Missing request body"
MsgTodoIdRequired   == "todo_id is required for single update"
MsgItemIdsRequired  == "item_ids must be a non-empty list of integers"
MsgBulkOk           == "Bulk operation successful"
MsgTodoDeleted      == "Todo deleted"
MsgItemDeleted      == "Item deleted successfully"
MsgItemsDeleted     == "Items deleted successfully"
MsgItemsUpdated     == "Items updated successfully"
MsgUnhandled        == "Internal Server Error"
MsgOk               == "OK"

VARIABLES
    todos,   \* table todos: id -> [title, description, status, completed, user_id]
    items,   \* table items: id -> [content, status, due_date, todo_id]
    last,    \* the last request and its response
    users,     \* table users: id -> [username, email, password]
    blocklist, \* table token_blocklist: the set of revoked jti
    tokens,    \* the tokens issued so far
    reg,       \* the register_user calls in flight, per client
    alast      \* the observed request to the authentication layer

vars == <<todos, items, last, users, blocklist, tokens, reg, alast>>

authvars == <<users, blocklist, tokens, reg, alast>>

\* ------------------------------------------------------- table helpers
Remove(f, S) == [x \in DOMAIN f \ S |-> f[x]]

Put(f, k, v) == [x \in DOMAIN f \cup {k} |-> IF x = k THEN v ELSE f[x]]

\* a primary key the database may hand to a new row: larger than every key
\* in the table (SQLite: exactly max+1; a sequence: possibly larger)
NewIds(f, Ids) == {i \in Ids : \A j \in DOMAIN f : i > j}

\* mutant: the todo is deleted without its items
session_delete_todo_nocascade(T, I, S) ==
    [todos |-> Remove(T, S), items |-> I]

\* db.session.delete(todo): the relationship Todo.items cascades the delete
session_delete_todo(T, I, S) ==
    [todos |-> Remove(T, S),
     items |-> Remove(I, {i \in DOMAIN I : I[i].todo_id \in S})]

\* mutant: the lookup forgets the user_id filter
todo_first_any(T, todo_id, user_id) ==
    IF todo_id \in DOMAIN T THEN todo_id ELSE NoneId

\* Todo.query.filter_by(id=todo_id, user_id=user_id).first()
todo_first(T, todo_id, user_id) ==
    IF todo_id \in DOMAIN T /\ T[todo_id].user_id = user_id
    THEN todo_id ELSE NoneId

\* Todo.query.filter(Todo.id.in_(todo_ids), Todo.user_id == user_id).all()
todos_in(T, todo_ids, user_id) ==
    {t \in DOMAIN T : t \in todo_ids /\ T[t].user_id = user_id}

\* mutant: the lookup forgets the join on the owner
item_first_any(T, I, item_id, user_id) ==
    IF item_id \in DOMAIN I THEN item_id ELSE NoneId

\* Item.query.join(Item.todo).filter(Item.id == item_id, Todo.user_id == user_id).first()
item_first(T, I, item_id, user_id) ==
    IF /\ item_id \in DOMAIN I
       /\ I[item_id].todo_id \in DOMAIN T
       /\ T[I[item_id].todo_id].user_id = user_id
    THEN item_id ELSE NoneId

\* mutant: the bulk selection forgets the join on the owner
items_in_any(T, I, item_ids, user_id) ==
    {i \in DOMAIN I : i \in item_ids}

\* Item.query.join(Item.todo).filter(Item.id.in_(item_ids), Todo.user_id == user_id).all()
items_in(T, I, item_ids, user_id) ==
    {i \in DOMAIN I : /\ i \in item_ids
                      /\ I[i].todo_id \in DOMAIN T
                      /\ T[I[i].todo_id].user_id = user_id}

\* mutant: the filter forgets Todo.id == todo_id
item_in_todo_first_any_todo(T, I, todo_id, item_id, user_id) ==
    IF /\ item_id \in DOMAIN I
       /\ I[item_id].todo_id \in DOMAIN T
       /\ T[I[item_id].todo_id].user_id = user_id
    THEN item_id ELSE NoneId

\* Item.query.join(Item.todo).filter(Item.id == item_id, Todo.id == todo_id,
\*                                   Todo.user_id == user_id).first()
item_in_todo_first(T, I, todo_id, item_id, user_id) ==
    IF /\ item_id \in DOMAIN I
       /\ I[item_id].todo_id \in DOMAIN T
       /\ I[item_id].todo_id = todo_id
       /\ T[I[item_id].todo_id].user_id = user_id
    THEN item_id ELSE NoneId

\* what a business-logic function leaves behind and returns:
\*   todos, items  the committed tables
\*   result        the row returned (an id, NoneId for None) or TRUE/FALSE
\*   error         the error message, None when there is none
\*   raised        TRUE when an exception left the function
Ret(T, I, result, error, raised) ==
    [todos |-> T, items |-> I, result |-> result, error |-> error, raised |-> raised]

\* ------------------------------------------------ business logic: todos
\* payload of an update: `has` is the set of keys present in the JSON body,
\* `v` carries their values
Data(has, v) == [has |-> has, v |-> v]

NewTodo(title, description, status, user_id) ==
    [title |-> title, description |-> description, status |-> status,
     completed |-> FALSE, user_id |-> user_id]

create_todo(T, I, new_id, title, user_id, description, status, commit_ok) ==
    IF commit_ok
    THEN Ret(Put(T, new_id, NewTodo(title, description, status, user_id)), I,
             new_id, None, FALSE)
    ELSE Ret(T, I, NoneId, None, TRUE)

get_todo_by_id(T, todo_id, user_id) == todo_first(T, todo_id, user_id)

\* mutant: todo.title = data.get("title") and so on, whether or not the key
\* is in the payload
merge_todo_every_field(todo, data) ==
    [todo EXCEPT
        !.title       = data.v.title,
        !.description = data.v.description,
        !.status      = data.v.status,
        !.completed   = data.v.completed]

\* mutant: a status of "Completed" also sets the completed flag
merge_todo_status_completes(todo, data) ==
    [todo EXCEPT
        !.title       = IF "title" \in data.has THEN data.v.title ELSE @,
        !.description = IF "description" \in data.has THEN data.v.description ELSE @,
        !.status      = IF "status" \in data.has THEN data.v.status ELSE @,
        !.completed   = IF "completed" \in data.has THEN data.v.completed
                        ELSE IF "status" \in data.has /\ data.v.status = "Completed"
                             THEN TRUE ELSE @]

\* the four `if key in data` assignments of update_todo
merge_todo(todo, data) ==
    [todo EXCEPT
        !.title       = IF "title" \in data.has THEN data.v.title ELSE @,
        !.description = IF "description" \in data.has THEN data.v.description ELSE @,
        !.status      = IF "status" \in data.has THEN data.v.status ELSE @,
        !.completed   = IF "completed" \in data.has THEN data.v.completed ELSE @]

update_todo(T, I, todo_id, user_id, data, commit_ok) ==
    LET todo == todo_first(T, todo_id, user_id) IN
    IF todo = NoneId THEN Ret(T, I, NoneId, MsgTodoNotFound, FALSE)
    ELSE IF commit_ok
         THEN Ret([T EXCEPT ![todo] = merge_todo(@, data)], I, todo, None, FALSE)
         ELSE Ret(T, I, NoneId, None, TRUE)

delete_todo(T, I, todo_id, user_id, commit_ok) ==
    LET todo == todo_first(T, todo_id, user_id) IN
    IF todo = NoneId THEN Ret(T, I, FALSE, MsgTodoNotFound, FALSE)
    ELSE IF commit_ok
         THEN LET d == session_delete_todo(T, I, {todo})
              IN  Ret(d.todos, d.items, TRUE, None, FALSE)
         ELSE Ret(T, I, FALSE, None, TRUE)

\* mutant: `status is None` instead of `not status`
falsy_none_only(status) == status = None

\* `not status`: None and the empty string are both falsy
falsy(status) == status \in {None, ""}

\* mutant: the commit happens inside the loop and the loop stops after the
\* first todo
bulk_update_todos_partial(T, I, user_id, todo_ids, action, status, commit_ok) ==
    LET sel == todos_in(T, todo_ids, user_id)
        one == IF sel = {} THEN {} ELSE {CHOOSE t \in sel : TRUE}
    IN
    IF sel = {} THEN Ret(T, I, FALSE, MsgNoMatchingTodos, FALSE)
    ELSE IF action = "delete"
         THEN IF commit_ok
              THEN LET d == session_delete_todo(T, I, one)
                   IN  Ret(d.todos, d.items, TRUE, None, FALSE)
              ELSE Ret(T, I, FALSE, ExcText, FALSE)
    ELSE IF action = "update_status"
         THEN IF falsy(status) THEN Ret(T, I, FALSE, MsgMissingStatus, FALSE)
              ELSE IF commit_ok
                   THEN Ret([t \in DOMAIN T |->
                               IF t \in one THEN [T[t] EXCEPT !.status = status]
                                            ELSE T[t]],
                            I, TRUE, None, FALSE)
                   ELSE Ret(T, I, FALSE, ExcText, FALSE)
    ELSE Ret(T, I, FALSE, MsgInvalidAction, FALSE)

bulk_update_todos(T, I, user_id, todo_ids, action, status, commit_ok) ==
    LET sel == todos_in(T, todo_ids, user_id) IN
    IF sel = {} THEN Ret(T, I, FALSE, MsgNoMatchingTodos, FALSE)
    ELSE IF action = "delete"
         THEN IF commit_ok
              THEN LET d == session_delete_todo(T, I, sel)
                   IN  Ret(d.todos, d.items, TRUE, None, FALSE)
              ELSE Ret(T, I, FALSE, ExcText, FALSE)
    ELSE IF action = "update_status"
         THEN IF falsy(status) THEN Ret(T, I, FALSE, MsgMissingStatus, FALSE)
              ELSE IF commit_ok
                   THEN Ret([t \in DOMAIN T |->
                               IF t \in sel THEN [T[t] EXCEPT !.status = status]
                                            ELSE T[t]],
                            I, TRUE, None, FALSE)
                   ELSE Ret(T, I, FALSE, ExcText, FALSE)
    ELSE Ret(T, I, FALSE, MsgInvalidAction, FALSE)

\* ------------------------------------------------ business logic: items
NewItem(content, status, due_date, todo_id) ==
    [content |-> content, status |-> status, due_date |-> due_date,
     todo_id |-> todo_id]

\* mutant: the parent is looked up by id alone
add_item_to_todo_any_todo(T, I, new_id, todo_id, user_id, content, due_date, status, commit_ok) ==
    LET todo == IF todo_id \in DOMAIN T THEN todo_id ELSE NoneId IN
    IF todo = NoneId THEN Ret(T, I, NoneId, MsgTodoNoPermission, FALSE)
    ELSE IF commit_ok
         THEN Ret(T, Put(I, new_id, NewItem(content, status, due_date, todo)),
                  new_id, None, FALSE)
         ELSE Ret(T, I, NoneId, None, TRUE)

add_item_to_todo(T, I, new_id, todo_id, user_id, content, due_date, status, commit_ok) ==
    LET todo == todo_first(T, todo_id, user_id) IN
    IF todo = NoneId THEN Ret(T, I, NoneId, MsgTodoNoPermission, FALSE)
    ELSE IF commit_ok
         THEN Ret(T, Put(I, new_id, NewItem(content, status, due_date, todo)),
                  new_id, None, FALSE)
         ELSE Ret(T, I, NoneId, None, TRUE)

\* mutant: the status is stored without the VALID_STATUSES check
update_item_status_unchecked(T, I, item_id, user_id, new_status, commit_ok) ==
    LET item == item_first(T, I, item_id, user_id) IN
    IF item = NoneId THEN Ret(T, I, NoneId, MsgItemNoPermission, FALSE)
    ELSE IF commit_ok
         THEN Ret(T, [I EXCEPT ![item].status = new_status], item, None, FALSE)
         ELSE Ret(T, I, NoneId, None, TRUE)

\* mutant: the status is validated before the item is looked up
update_item_status_status_first(T, I, item_id, user_id, new_status, commit_ok) ==
    LET item == item_first(T, I, item_id, user_id) IN
    IF new_status \notin VALID_STATUSES
    THEN Ret(T, I, NoneId, MsgInvalidStatus, FALSE)
    ELSE IF item = NoneId THEN Ret(T, I, NoneId, MsgItemNoPermission, FALSE)
    ELSE IF commit_ok
         THEN Ret(T, [I EXCEPT ![item].status = new_status], item, None, FALSE)
         ELSE Ret(T, I, NoneId, None, TRUE)

update_item_status(T, I, item_id, user_id, new_status, commit_ok) ==
    LET item == item_first(T, I, item_id, user_id) IN
    IF item = NoneId THEN Ret(T, I, NoneId, MsgItemNoPermission, FALSE)
    ELSE IF new_status \notin VALID_STATUSES
         THEN Ret(T, I, NoneId, MsgInvalidStatus, FALSE)
    ELSE IF commit_ok
         THEN Ret(T, [I EXCEPT ![item].status = new_status], item, None, FALSE)
         ELSE Ret(T, I, NoneId, None, TRUE)

\* mutant: success is reported although the row is not deleted
delete_item_keeps_row(T, I, item_id, user_id, commit_ok) ==
    LET item == item_first(T, I, item_id, user_id) IN
    IF item = NoneId THEN Ret(T, I, FALSE, MsgItemNoPermission, FALSE)
    ELSE Ret(T, I, commit_ok, None, ~commit_ok)

delete_item(T, I, item_id, user_id, commit_ok) ==
    LET item == item_first(T, I, item_id, user_id) IN
    IF item = NoneId THEN Ret(T, I, FALSE, MsgItemNoPermission, FALSE)
    ELSE IF commit_ok
         THEN Ret(T, Remove(I, {item}), TRUE, None, FALSE)
         ELSE Ret(T, I, FALSE, None, TRUE)

get_item_by_id(T, I, item_id, user_id) == item_first(T, I, item_id, user_id)

\* mutant: the action is validated before the selection is looked at
bulk_update_items_action_first(T, I, user_id, item_ids, action, commit_ok) ==
    LET sel == items_in(T, I, item_ids, user_id) IN
    IF action # "delete" /\ action \notin VALID_STATUSES
    THEN Ret(T, I, FALSE, MsgInvalidItemAction, FALSE)
    ELSE IF sel = {} THEN Ret(T, I, FALSE, MsgItemNoPermission, FALSE)
    ELSE IF action = "delete"
         THEN IF commit_ok
              THEN Ret(T, Remove(I, sel), TRUE, None, FALSE)
              ELSE Ret(T, I, FALSE, None, TRUE)
    ELSE IF commit_ok
         THEN Ret(T, [i \in DOMAIN I |->
                        IF i \in sel THEN [I[i] EXCEPT !.status = action]
                                     ELSE I[i]],
                  TRUE, None, FALSE)
         ELSE Ret(T, I, FALSE, None, TRUE)

bulk_update_items(T, I, user_id, item_ids, action, commit_ok) ==
    LET sel == items_in(T, I, item_ids, user_id) IN
    IF sel = {} THEN Ret(T, I, FALSE, MsgItemNoPermission, FALSE)
    ELSE IF action = "delete"
         THEN IF commit_ok
              THEN Ret(T, Remove(I, sel), TRUE, None, FALSE)
              ELSE Ret(T, I, FALSE, None, TRUE)
    ELSE IF action \in VALID_STATUSES
         THEN IF commit_ok
              THEN Ret(T, [i \in DOMAIN I |->
                             IF i \in sel THEN [I[i] EXCEPT !.status = action]
                                          ELSE I[i]],
                       TRUE, None, FALSE)
              ELSE Ret(T, I, FALSE, None, TRUE)
    ELSE Ret(T, I, FALSE, MsgInvalidItemAction, FALSE)

\* ---------------------------------------------------- resources: todos
\* what a request leaves behind and answers: the committed tables, the HTTP
\* status, the message (MsgOk with a serialized row) and the row returned
Http(T, I, http, msg, ent) ==
    [todos |-> T, items |-> I, http |-> http, msg |-> msg, ent |-> ent]

\* an exception no handler catches: the framework answers 500
Unhandled(T, I) == Http(T, I, 500, MsgUnhandled, NoneId)

\* mutant: data.get(key), the default is dropped
dict_get_no_default(data, key, default) ==
    IF key \in data.has THEN data.v[key] ELSE None

\* data.get(key, default)
dict_get(data, key, default) == IF key \in data.has THEN data.v[key] ELSE default

TodoResource_post(T, I, new_id, user_id, data, commit_ok) ==
    IF data.has = {} \/ "title" \notin data.has
    THEN Http(T, I, 400, MsgMissingTitle, NoneId)
    ELSE LET r == create_todo(T, I, new_id, data.v.title, user_id,
                              dict_get(data, "description", None),
                              dict_get(data, "status", DefaultTodoStatus),
                              commit_ok)
         IN  IF r.raised THEN Unhandled(r.todos, r.items)
             ELSE Http(r.todos, r.items, 201, MsgOk, r.result)

TodoResource_get(T, I, todo_id, user_id) ==
    LET todo == get_todo_by_id(T, todo_id, user_id) IN
    IF todo = NoneId THEN Http(T, I, 403, MsgTodoForbidden, NoneId)
    ELSE Http(T, I, 200, MsgOk, todo)

\* todo_id is NoneId for PUT /todos
TodoResource_put(T, I, todo_id, user_id, data, commit_ok) ==
    IF data.has = {} THEN Http(T, I, 400, MsgMissingBody, NoneId)
    ELSE IF "todo_ids" \in data.has /\ "action" \in data.has
    THEN LET r == bulk_update_todos(T, I, user_id, data.v.todo_ids, data.v.action,
                                    dict_get(data, "status", None), commit_ok)
         IN  IF r.raised THEN Unhandled(r.todos, r.items)
             ELSE IF ~r.result THEN Http(r.todos, r.items, 400, r.error, NoneId)
             ELSE Http(r.todos, r.items, 200, MsgBulkOk, NoneId)
    ELSE IF todo_id = NoneId THEN Http(T, I, 400, MsgTodoIdRequired, NoneId)
    ELSE LET r == update_todo(T, I, todo_id, user_id, data, commit_ok)
         IN  IF r.raised THEN Unhandled(r.todos, r.items)
             ELSE IF r.error # None THEN Http(r.todos, r.items, 403, r.error, NoneId)
             ELSE Http(r.todos, r.items, 200, MsgOk, r.result)

TodoResource_delete(T, I, todo_id, user_id, commit_ok) ==
    LET r == delete_todo(T, I, todo_id, user_id, commit_ok) IN
    IF r.raised THEN Unhandled(r.todos, r.items)
    ELSE IF ~r.result THEN Http(r.todos, r.items, 403, r.error, NoneId)
    ELSE Http(r.todos, r.items, 200, MsgTodoDeleted, NoneId)

\* ---------------------------------------------------- resources: items
\* mutant: todo_id is an ordinary field of the schema (not dump_only)
ItemSchema_load_todo_id(raw, partial) ==
    IF \/ ("status" \in raw.has /\ raw.v.status \notin VALID_STATUSES)
       \/ (~partial /\ "content" \notin raw.has)
    THEN Data({"errors"}, raw.v)
    ELSE IF ~partial /\ "status" \notin raw.has
         THEN Data(raw.has \cup {"status"}, [raw.v EXCEPT !.status = DefaultItemStatus])
         ELSE raw

\* ItemSchema.load: status must be one of the three values and defaults to
\* "Pending"; content is required unless the schema is partial; todo_id is
\* dump_only, so a body that carries it is refused as an unknown field.  The result
\* is the loaded dict, or has = {"errors"} for a validation error (422).
ItemSchema_load(raw, partial) ==
    IF \/ ("status" \in raw.has /\ raw.v.status \notin VALID_STATUSES)
       \/ (~partial /\ "content" \notin raw.has)
       \/ "todo_id" \in raw.has
    THEN Data({"errors"}, raw.v)
    ELSE IF ~partial /\ "status" \notin raw.has
         THEN Data(raw.has \cup {"status"}, [raw.v EXCEPT !.status = DefaultItemStatus])
         ELSE raw

MsgValidation == "Unprocessable Entity"

\* for key, value in item_data.items(): setattr(item, key, value)
setattrs_item(item, item_data) ==
    [item EXCEPT
        !.content  = IF "content" \in item_data.has THEN item_data.v.content ELSE @,
        !.status   = IF "status" \in item_data.has THEN item_data.v.status ELSE @,
        !.due_date = IF "due_date" \in item_data.has THEN item_data.v.due_date ELSE @,
        !.todo_id  = IF "todo_id" \in item_data.has THEN item_data.v.todo_id ELSE @]

ItemsResource_post(T, I, new_id, todo_id, user_id, raw, commit_ok) ==
    LET item_data == ItemSchema_load(raw, FALSE) IN
    IF item_data.has = {"errors"} THEN Http(T, I, 422, MsgValidation, NoneId)
    ELSE LET todo == todo_first(T, todo_id, user_id) IN
         IF todo = NoneId THEN Http(T, I, 404, MsgTodoNoPermission, NoneId)
         ELSE IF commit_ok
              THEN Http(T, Put(I, new_id,
                               NewItem(item_data.v.content, item_data.v.status,
                                       dict_get(item_data, "due_date", None), todo)),
                        201, MsgOk, new_id)
              ELSE Http(T, I, 500, ExcText, NoneId)

ItemResource_get(T, I, todo_id, item_id, user_id) ==
    LET item == item_in_todo_first(T, I, todo_id, item_id, user_id) IN
    IF item = NoneId THEN Http(T, I, 404, MsgItemNoPermission, NoneId)
    ELSE Http(T, I, 200, MsgOk, item)

ItemResource_put(T, I, todo_id, item_id, user_id, raw, commit_ok) ==
    LET item_data == ItemSchema_load(raw, TRUE) IN
    IF item_data.has = {"errors"} THEN Http(T, I, 422, MsgValidation, NoneId)
    ELSE LET item == item_in_todo_first(T, I, todo_id, item_id, user_id) IN
         IF item = NoneId THEN Http(T, I, 404, MsgItemNoPermission, NoneId)
         ELSE IF commit_ok
              THEN Http(T, [I EXCEPT ![item] = setattrs_item(@, item_data)],
                        200, MsgOk, item)
              ELSE Http(T, I, 500, ExcText, NoneId)

ItemResource_delete(T, I, todo_id, item_id, user_id, commit_ok) ==
    LET item == item_in_todo_first(T, I, todo_id, item_id, user_id) IN
    IF item = NoneId THEN Http(T, I, 404, MsgItemNoPermission, NoneId)
    ELSE IF commit_ok
         THEN Http(T, Remove(I, {item}), 200, MsgItemDeleted, NoneId)
         ELSE Http(T, I, 500, ExcText, NoneId)

ItemsBulkResource_put(T, I, user_id, item_ids, action, commit_ok) ==
    IF item_ids = {} THEN Http(T, I, 400, MsgItemIdsRequired, NoneId)
    ELSE LET r == bulk_update_items(T, I, user_id, item_ids, action, commit_ok) IN
         IF r.raised THEN Unhandled(r.todos, r.items)
         ELSE IF ~r.result THEN Http(r.todos, r.items, 404, r.error, NoneId)
         ELSE IF action = "delete"
              THEN Http(r.todos, r.items, 200, MsgItemsDeleted, NoneId)
              ELSE Http(r.todos, r.items, 200, MsgItemsUpdated, NoneId)

\* ------------------------------------------------------ request inputs
TodoV(title, status, completed, todo_ids, action) ==
    [title |-> title, description |-> None, status |-> status,
     completed |-> completed, todo_ids |-> todo_ids, action |-> action,
     user_id |-> NoneId]

\* a body that may also carry a description and a "user_id" key
TodoW(title, description, status, completed, user_id) ==
    [title |-> title, description |-> description, status |-> status,
     completed |-> completed, todo_ids |-> {}, action |-> None,
     user_id |-> user_id]

\* bodies of POST /todos: without and with the title
PostBodies ==
    { Data({"status"}, TodoV("A", "Completed", FALSE, {}, None)),
      Data({"title"}, TodoV("A", None, FALSE, {}, None)) }

\* bodies of PUT /todos/<id>: a partial update
UpdateBodies ==
    { Data({}, TodoV("A", None, FALSE, {}, None)),
      Data({"status"}, TodoV("A", "Completed", FALSE, {}, None)) }

\* The request under observation ranges over more bodies than the requests
\* before it, which build the tables from the bodies above.
WidePostBodies ==
    PostBodies \cup
    { Data({"title", "description"}, TodoW("B", "d", None, FALSE, NoneId)),
      Data({"title", "status"}, TodoW("B", None, "Completed", FALSE, NoneId)),
      Data({"title", "description", "status"},
           TodoW("B", "d", "Completed", FALSE, NoneId)) }

\* choices of keys among the four update_todo reads and "user_id", which it
\* does not read; the user_id sent is another user's
WideUpdateKeys ==
    { {"title"}, {"completed"}, {"user_id"}, {"description", "completed"},
      {"status", "user_id"}, {"title", "description", "status", "completed"} }

WideUpdateBodies(u) ==
    UpdateBodies \cup
    { Data(has, TodoW("B", "d", "Completed", TRUE, v)) :
        has \in WideUpdateKeys, v \in Users \ {u} }

\* bodies of PUT /todos: a bulk action, with or without "status"
BulkActions == {"delete", "update_status", "archive"}

BulkBodies ==
    { Data({"todo_ids", "action"}, TodoV("A", None, FALSE, ids, a)) :
        ids \in SUBSET TodoIds, a \in BulkActions }
    \cup
    { Data({"todo_ids", "action", "status"}, TodoV("A", st, FALSE, ids, a)) :
        ids \in SUBSET TodoIds, a \in {"update_status"}, st \in {"", "Completed"} }

ItemV(content, status, due_date) ==
    [content |-> content, status |-> status, due_date |-> due_date,
     todo_id |-> NoneId]

\* a raw body that may also carry the key "todo_id"
ItemW(content, status, due_date, todo_id) ==
    [content |-> content, status |-> status, due_date |-> due_date,
     todo_id |-> todo_id]

\* raw bodies of POST /todos/<todo_id>/items
ItemPostBodies ==
    { Data({"content"}, ItemV("c", None, None)),
      Data({"content", "status"}, ItemV("c", "Done", None)) }

\* raw bodies of PUT /todos/<todo_id>/items/<item_id>
ItemPutBodies ==
    { Data({"status"}, ItemV("c", "Completed", None)),
      Data({"status"}, ItemV("c", "Done", None)) }

\* the observed POST ranges over more raw bodies: a valid status, a due date,
\* no content
WideItemPostBodies ==
    ItemPostBodies \cup
    { Data({"content", "status"}, ItemW("x", "Completed", None, NoneId)),
      Data({"content", "due_date"}, ItemW("x", None, "2030-01-01", NoneId)),
      Data({"status"}, ItemW(None, "Pending", None, NoneId)) }

\* the observed PUT ranges over more raw bodies: another content, a due date,
\* and bodies that name another parent todo
WideItemPutBodies ==
    ItemPutBodies \cup
    { Data({"content"}, ItemW("x", None, None, NoneId)),
      Data({"content", "due_date"}, ItemW("x", None, "2030-01-01", NoneId)) }
    \cup
    { Data(has, ItemW("x", "Completed", None, t)) :
        has \in {{"todo_id"}, {"status", "todo_id"}}, t \in TodoIds }

\* the status a caller hands to add_item_to_todo
AddStatusArgs == {"Pending", "Done"}

\* a keyword argument with a default: None stands for the argument left out
default_arg(arg, default) == IF arg = None THEN default ELSE arg

\* the status a caller hands to update_item_status
StatusArgs == {"Completed", "Done", ""}

ItemBulkActions == {"delete", "Completed", "archive"}

\* ----------------------------------------------------------- the state
\* `last` is the request under observation: what was asked (op, user, the
\* todo_id of the path, the ids named, the string argument, the body, whether
\* its commit went through), the tables as they were when it arrived (todos,
\* items) and the answer (http, msg, ent).  Requests before it are not
\* recorded; the run ends with it.
NoData == Data({}, ItemV(None, None, None))

Req(op, user, todo_id, ids, arg, data, commit_ok) ==
    [op |-> op, user |-> user, todo_id |-> todo_id, ids |-> ids, arg |-> arg,
     data |-> data, commit_ok |-> commit_ok]

Last(req, T, I, r) ==
    [op |-> req.op, user |-> req.user, todo_id |-> req.todo_id, ids |-> req.ids,
     arg |-> req.arg, data |-> req.data, commit_ok |-> req.commit_ok,
     todos |-> T, items |-> I, http |-> r.http, msg |-> r.msg, ent |-> r.ent]

NoRequest ==
    Last(Req("none", 0, NoneId, {}, None, NoData, TRUE), <<>>, <<>>,
         [http |-> 0, msg |-> None, ent |-> NoneId])

\* a JWT: its jti, the identity it carries and its type
Token(jti, sub, type) == [jti |-> jti, sub |-> sub, type |-> type]

NoToken == Token(0, NoneId, "none")

\* `alast` is the observed request to the authentication layer: what was
\* asked (op, username, email, password, the token presented, whether the
\* commit went through), for register_user the ids of the users that were
\* there when it ran its query (seen), the tables as they were when it was
\* answered (users, blocklist, todos) and the answer (http, msg, the id of
\* the user returned, the tokens issued, the rows left in db.session).
AReq(op, seen, username, email, password, token, commit_ok) ==
    [op |-> op, seen |-> seen, username |-> username, email |-> email,
     password |-> password, token |-> token, commit_ok |-> commit_ok]

ALast(req, U, B, T, r) ==
    [op |-> req.op, seen |-> req.seen, username |-> req.username,
     email |-> req.email, password |-> req.password, token |-> req.token,
     commit_ok |-> req.commit_ok, users |-> U, blocklist |-> B, todos |-> T,
     http |-> r.http, msg |-> r.msg, id |-> r.id, issued |-> r.issued,
     session |-> r.session]

NoAuthRequest ==
    ALast(AReq("none", {}, None, None, None, NoToken, TRUE), <<>>, {}, <<>>,
          [http |-> 0, msg |-> None, id |-> NoneId, issued |-> {}, session |-> {}])

\* no register_user call in flight
NoCall == [pc |-> "idle", username |-> None, email |-> None, seen |-> {}]

Init ==
    /\ todos = <<>>
    /\ items = <<>>
    /\ last = NoRequest
    /\ users = <<>>
    /\ blocklist = {}
    /\ tokens = {}
    /\ reg = [c \in Clients |-> NoCall]
    /\ alast = NoAuthRequest

\* no request has been recorded yet
Idle == last = NoRequest

\* a request handled by a resource: r is what the handler leaves and answers
AnswerAs(observed, req, r) ==
    /\ todos' = r.todos
    /\ items' = r.items
    /\ last' = IF observed THEN Last(req, todos, items, r) ELSE last
    /\ UNCHANGED authvars

Answer(req, r) == \E observed \in BOOLEAN : AnswerAs(observed, req, r)

\* a direct call of a business-logic function answers (result, error) or
\* raises; there is no HTTP status
MsgRaised == "raise"

Called(r, ent) ==
    Http(r.todos, r.items, 0, IF r.raised THEN MsgRaised ELSE r.error, ent)

TodoPost ==
    \E u \in Users, observed \in BOOLEAN, commit_ok \in BOOLEAN :
    \E data \in (IF observed THEN WidePostBodies ELSE PostBodies) :
    \E new_id \in NewIds(todos, TodoIds) :
        /\ Idle
        /\ AnswerAs(observed,
                    Req("TodoResource.post", u, NoneId, {}, None, data, commit_ok),
                    TodoResource_post(todos, items, new_id, u, data, commit_ok))

TodoGet ==
    \E u \in Users, todo_id \in TodoIds :
        /\ Idle
        /\ Answer(Req("TodoResource.get", u, todo_id, {todo_id}, None, NoData, TRUE),
                  TodoResource_get(todos, items, todo_id, u))

TodoPut ==
    \E u \in Users, todo_id \in TodoIds, observed \in BOOLEAN, commit_ok \in BOOLEAN :
    \E data \in (IF observed THEN WideUpdateBodies(u) ELSE UpdateBodies) :
        /\ Idle
        /\ AnswerAs(observed,
                    Req("TodoResource.put", u, todo_id, {todo_id}, None, data, commit_ok),
                    TodoResource_put(todos, items, todo_id, u, data, commit_ok))

TodoPutBulk ==
    \E u \in Users, data \in BulkBodies, commit_ok \in BOOLEAN :
        /\ Idle
        /\ Answer(Req("TodoResource.put.bulk", u, NoneId, data.v.todo_ids,
                      data.v.action, data, commit_ok),
                  TodoResource_put(todos, items, NoneId, u, data, commit_ok))

TodoDelete ==
    \E u \in Users, todo_id \in TodoIds, commit_ok \in BOOLEAN :
        /\ Idle
        /\ Answer(Req("TodoResource.delete", u, todo_id, {todo_id}, None, NoData,
                      commit_ok),
                  TodoResource_delete(todos, items, todo_id, u, commit_ok))

ItemsPost ==
    \E u \in Users, todo_id \in TodoIds, observed \in BOOLEAN, commit_ok \in BOOLEAN :
    \E raw \in (IF observed THEN WideItemPostBodies ELSE ItemPostBodies) :
    \E new_id \in NewIds(items, ItemIds) :
        /\ Idle
        /\ AnswerAs(observed,
                    Req("ItemsResource.post", u, todo_id, {}, None, raw, commit_ok),
                    ItemsResource_post(todos, items, new_id, todo_id, u, raw, commit_ok))

ItemGet ==
    \E u \in Users, todo_id \in TodoIds, item_id \in ItemIds :
        /\ Idle
        /\ Answer(Req("ItemResource.get", u, todo_id, {item_id}, None, NoData, TRUE),
                  ItemResource_get(todos, items, todo_id, item_id, u))

ItemPut ==
    \E u \in Users, todo_id \in TodoIds, item_id \in ItemIds,
       observed \in BOOLEAN, commit_ok \in BOOLEAN :
    \E raw \in (IF observed THEN WideItemPutBodies ELSE ItemPutBodies) :
        /\ Idle
        /\ AnswerAs(observed,
                    Req("ItemResource.put", u, todo_id, {item_id}, None, raw, commit_ok),
                    ItemResource_put(todos, items, todo_id, item_id, u, raw, commit_ok))

ItemDelete ==
    \E u \in Users, todo_id \in TodoIds, item_id \in ItemIds, commit_ok \in BOOLEAN :
        /\ Idle
        /\ Answer(Req("ItemResource.delete", u, todo_id, {item_id}, None, NoData,
                      commit_ok),
                  ItemResource_delete(todos, items, todo_id, item_id, u, commit_ok))

ItemsBulkPut ==
    \E u \in Users, item_ids \in SUBSET ItemIds, action \in ItemBulkActions,
       commit_ok \in BOOLEAN :
        /\ Idle
        /\ Answer(Req("ItemsBulkResource.put", u, NoneId, item_ids, action, NoData,
                      commit_ok),
                  ItemsBulkResource_put(todos, items, u, item_ids, action, commit_ok))

\* the item functions of the business-logic layer, called directly
AddItemToTodo ==
    \E u \in Users, todo_id \in TodoIds, status \in AddStatusArgs \cup {None},
       commit_ok \in BOOLEAN :
    \E new_id \in NewIds(items, ItemIds) :
        /\ Idle
        /\ LET r == add_item_to_todo(todos, items, new_id, todo_id, u, "c", None,
                                     default_arg(status, DefaultItemStatus), commit_ok)
           IN  Answer(Req("add_item_to_todo", u, todo_id, {}, status, NoData, commit_ok),
                      Called(r, r.result))

UpdateItemStatus ==
    \E u \in Users, item_id \in ItemIds, new_status \in StatusArgs,
       commit_ok \in BOOLEAN :
        /\ Idle
        /\ LET r == update_item_status(todos, items, item_id, u, new_status, commit_ok)
           IN  Answer(Req("update_item_status", u, NoneId, {item_id}, new_status,
                          NoData, commit_ok),
                      Called(r, r.result))

DeleteItem ==
    \E u \in Users, item_id \in ItemIds, commit_ok \in BOOLEAN :
        /\ Idle
        /\ LET r == delete_item(todos, items, item_id, u, commit_ok)
           IN  Answer(Req("delete_item", u, NoneId, {item_id}, None, NoData, commit_ok),
                      Called(r, NoneId))

GetItemById ==
    \E u \in Users, item_id \in ItemIds :
        /\ Idle
        /\ LET item == get_item_by_id(todos, items, item_id, u)
           IN  Answer(Req("get_item_by_id", u, NoneId, {item_id}, None, NoData, TRUE),
                      Called(Ret(todos, items, item, None, FALSE), item))

Next ==
    \/ TodoPost \/ TodoGet \/ TodoPut \/ TodoPutBulk \/ TodoDelete
    \/ ItemsPost \/ ItemGet \/ ItemPut \/ ItemDelete \/ ItemsBulkPut
    \/ AddItemToTodo \/ UpdateItemStatus \/ DeleteItem \/ GetItemById

Spec == Init /\ [][Next]_vars

\* ======================================================= authentication
MsgUserExists   == "User with this username or email already exists."
MsgInternal     == "Internal server error"
MsgInvalidLogin == "Invalid email or password"
MsgUserNotFound == "User not found"
MsgEmailExists  == "Email exists, you may reset password"
MsgResetOk      == "Password reset successful"
MsgLoggedOut    == "Successfully logged out"
MsgLogoutError  == "Server error during logout: str(e)"
MsgRevoked      == "Token has been revoked"
MsgWrongToken   == "Only non-refresh tokens are allowed"
MsgOnlyRefresh  == "Only refresh tokens are allowed"

\* -------------------------------------------------- utils/security.py
\* scrypt.hash: a fresh salt and the key derived from salt and password
hash_password(password, salt) == [salt |-> salt, key |-> <<salt, password>>]

\* scrypt.verify: derives the key again with the salt of the stored hash
verify_password(password, hashed) == hashed.key = <<hashed.salt, password>>

\* --------------------------------------------------------- table users
User(username, email, password) ==
    [username |-> username, email |-> email, password |-> password]

\* the row with the least id among S: what .first() returns
first_of(S) == IF S = {} THEN NoneId ELSE CHOOSE u \in S : \A v \in S : u <= v

\* User.query.filter((User.username == username) | (User.email == email)).first()
user_by_name_or_email(U, username, email) ==
    first_of({u \in DOMAIN U : U[u].username = username \/ U[u].email = email})

\* User.query.filter_by(email=email).first()
user_by_email(U, email) == first_of({u \in DOMAIN U : U[u].email = email})

\* mutant: only the username column is declared unique
users_unique_username_only(U, username, email) ==
    \A u \in DOMAIN U : U[u].username # username

\* the unique constraints of the table: a row with this username and email
\* can be inserted
users_unique(U, username, email) ==
    \A u \in DOMAIN U : U[u].username # username /\ U[u].email # email

\* ------------------------------------------------------ auth_logic.py
\* what a function of auth_logic.py leaves behind and returns; session is
\* what it leaves in db.session: rows added and not committed
ARet(U, result, error, raised) ==
    [users |-> U, result |-> result, error |-> error, raised |-> raised,
     session |-> {}]

\* db.session.add(row)
db_session_add(r, id, row) ==
    [r EXCEPT !.session = @ \cup {[id |-> id, row |-> row]}]

\* mutant: the except branch returns without rolling back
db_session_rollback_skipped(r) == r

\* db.session.rollback(): what was added and not committed is dropped
db_session_rollback(r) == [r EXCEPT !.session = {}]

\* db.session.commit() going through: the rows in the session are inserted
db_session_commit(U, S) ==
    [u \in DOMAIN U \cup {p.id : p \in S} |->
        IF \E p \in S : p.id = u THEN (CHOOSE p \in S : p.id = u).row ELSE U[u]]

\* mutant: the query looks at the username only
register_user_check_username_only(U, username, email) ==
    first_of({u \in DOMAIN U : U[u].username = username})

\* register_user up to its query: the existing user found, or NoneId
register_user_check(U, username, email) ==
    user_by_name_or_email(U, username, email)

\* register_user after the query found nobody: hash, add, commit.  The commit
\* raises when the database fails (commit_ok) or when a unique constraint is
\* violated by a row committed since the query; the except branch rolls back.
register_user_commit(U, new_id, username, email, password, salt, commit_ok) ==
    LET new_user == User(username, email, hash_password(password, salt))
        added == db_session_add(ARet(U, NoneId, MsgInternal, FALSE), new_id, new_user)
    IN
    IF commit_ok /\ users_unique(U, username, email)
    THEN ARet(db_session_commit(U, added.session), new_id, None, FALSE)
    ELSE db_session_rollback(added)

\* mutant: the two failures get messages of their own
login_user_tells_unknown(U, email, password, jti, query_ok) ==
    LET user == user_by_email(U, email) IN
    IF ~query_ok THEN ARet(U, {}, MsgInternal, FALSE)
    ELSE IF user = NoneId THEN ARet(U, {}, MsgUserNotFound, FALSE)
    ELSE IF verify_password(password, U[user].password)
         THEN ARet(U, {Token(jti, user, "access"), Token(jti + 1, user, "refresh")},
                   None, FALSE)
         ELSE ARet(U, {}, MsgInvalidLogin, FALSE)

\* login_user: the result is the pair of tokens ({} for None); jti and jti + 1
\* are the fresh identifiers of the two tokens.  The query of the user raises
\* when the database fails (query_ok); the except branch answers.
login_user(U, email, password, jti, query_ok) ==
    LET user == user_by_email(U, email) IN
    IF ~query_ok THEN ARet(U, {}, MsgInternal, FALSE)
    ELSE IF user # NoneId /\ verify_password(password, U[user].password)
    THEN ARet(U, {Token(jti, user, "access"), Token(jti + 1, user, "refresh")},
              None, FALSE)
    ELSE ARet(U, {}, MsgInvalidLogin, FALSE)

forgot_password_logic(U, email) ==
    IF user_by_email(U, email) = NoneId THEN ARet(U, FALSE, MsgUserNotFound, FALSE)
    ELSE ARet(U, TRUE, None, FALSE)

\* mutant: the key of the new password is derived without the salt
reset_password_logic_plain(U, email, new_password, salt, commit_ok) ==
    LET user == user_by_email(U, email) IN
    IF user = NoneId THEN ARet(U, FALSE, MsgUserNotFound, FALSE)
    ELSE IF commit_ok
         THEN ARet([U EXCEPT ![user].password = [salt |-> salt, key |-> <<"", new_password>>]],
                   TRUE, None, FALSE)
         ELSE ARet(U, FALSE, None, TRUE)

reset_password_logic(U, email, new_password, salt, commit_ok) ==
    LET user == user_by_email(U, email) IN
    IF user = NoneId THEN ARet(U, FALSE, MsgUserNotFound, FALSE)
    ELSE IF commit_ok
         THEN ARet([U EXCEPT ![user].password = hash_password(new_password, salt)],
                   TRUE, None, FALSE)
         ELSE ARet(U, FALSE, None, TRUE)

\* --------------------------------------------------- resources/auth.py
\* what a resource of auth.py leaves behind and answers: the tables, the
\* status and message, the id of the user returned and the tokens issued
AHttp(U, B, T, http, msg, id, issued) ==
    [users |-> U, blocklist |-> B, todos |-> T, http |-> http, msg |-> msg,
     id |-> id, issued |-> issued, session |-> {}]

\* RegisterResource.post when register_user found an existing user
RegisterResource_post_exists(U, B, T) ==
    AHttp(U, B, T, 400, MsgUserExists, NoneId, {})

\* RegisterResource.post when register_user went on to its commit
RegisterResource_post_commit(U, B, T, new_id, username, email, password, salt, commit_ok) ==
    LET r == register_user_commit(U, new_id, username, email, password, salt,
                                  commit_ok)
    IN  IF r.error # None
        THEN [AHttp(r.users, B, T, 400, r.error, NoneId, {})
                  EXCEPT !.session = r.session]
        ELSE AHttp(r.users, B, T, 201, MsgOk, r.result, {})

LoginResource_post(U, B, T, email, password, jti, query_ok) ==
    LET r == login_user(U, email, password, jti, query_ok) IN
    IF r.error # None THEN AHttp(r.users, B, T, 401, r.error, NoneId, {})
    ELSE AHttp(r.users, B, T, 200, MsgOk, NoneId, r.result)

ForgotPasswordResource_post(U, B, T, email) ==
    LET r == forgot_password_logic(U, email) IN
    IF ~r.result THEN AHttp(r.users, B, T, 404, r.error, NoneId, {})
    ELSE AHttp(r.users, B, T, 200, MsgEmailExists, NoneId, {})

ResetPasswordResource_post(U, B, T, email, password, salt, commit_ok) ==
    LET r == reset_password_logic(U, email, password, salt, commit_ok) IN
    IF r.raised THEN AHttp(r.users, B, T, 500, MsgUnhandled, NoneId, {})
    ELSE IF ~r.result THEN AHttp(r.users, B, T, 400, r.error, NoneId, {})
    ELSE AHttp(r.users, B, T, 200, MsgResetOk, NoneId, {})

\* mutant: the loader looks the token up by the identity it carries
check_if_token_revoked_by_sub(B, token) == token.sub \in B

\* the token_in_blocklist_loader: TokenBlocklist.query.filter_by(jti=jti).first()
\* is not None
check_if_token_revoked(B, token) == token.jti \in B

\* @jwt_required(): an access token that the loader does not report revoked
\* (http 0: the request goes on to the method)
jwt_required(B, token) ==
    IF token.type # "access" THEN [http |-> 422, msg |-> MsgWrongToken]
    ELSE IF check_if_token_revoked(B, token) THEN [http |-> 401, msg |-> MsgRevoked]
    ELSE [http |-> 0, msg |-> None]

\* @jwt_required(refresh=True): a refresh token that the loader does not
\* report revoked
jwt_required_refresh(B, token) ==
    IF token.type # "refresh" THEN [http |-> 422, msg |-> MsgOnlyRefresh]
    ELSE IF check_if_token_revoked(B, token) THEN [http |-> 401, msg |-> MsgRevoked]
    ELSE [http |-> 0, msg |-> None]

\* TokenRefreshResource.post: a new access token (jti) for the identity of
\* the refresh token
TokenRefreshResource_post(U, B, T, token, jti) ==
    LET gate == jwt_required_refresh(B, token) IN
    IF gate.http # 0 THEN AHttp(U, B, T, gate.http, gate.msg, NoneId, {})
    ELSE AHttp(U, B, T, 200, MsgOk, NoneId, {Token(jti, token.sub, "access")})

\* mutant: the refresh token issued with the access token is revoked too
LogoutUser_post_revokes_pair(U, B, T, token, commit_ok) ==
    LET gate == jwt_required(B, token) IN
    IF gate.http # 0 THEN AHttp(U, B, T, gate.http, gate.msg, NoneId, {})
    ELSE IF commit_ok
         THEN AHttp(U, B \cup {token.jti, token.jti + 1}, T, 200, MsgLoggedOut,
                    NoneId, {})
         ELSE AHttp(U, B, T, 500, MsgLogoutError, NoneId, {})

LogoutUser_post(U, B, T, token, commit_ok) ==
    LET gate == jwt_required(B, token) IN
    IF gate.http # 0 THEN AHttp(U, B, T, gate.http, gate.msg, NoneId, {})
    ELSE IF commit_ok
         THEN AHttp(U, B \cup {token.jti}, T, 200, MsgLoggedOut, NoneId, {})
         ELSE AHttp(U, B, T, 500, MsgLogoutError, NoneId, {})

\* GET /todos/<id> and POST /todos as the client sends them: with a token
AuthTodoResource_get(U, B, T, I, token, todo_id) ==
    LET gate == jwt_required(B, token) IN
    IF gate.http # 0 THEN AHttp(U, B, T, gate.http, gate.msg, NoneId, {})
    ELSE LET r == TodoResource_get(T, I, todo_id, token.sub)
         IN  AHttp(U, B, r.todos, r.http, r.msg, r.ent, {})

AuthTodoResource_post(U, B, T, I, token, new_id, data) ==
    LET gate == jwt_required(B, token) IN
    IF gate.http # 0 THEN AHttp(U, B, T, gate.http, gate.msg, NoneId, {})
    ELSE LET r == TodoResource_post(T, I, new_id, token.sub, data, TRUE)
         IN  AHttp(U, B, r.todos, r.http, r.msg, r.ent, {})

\* ----------------------------------------- requests to the auth layer
\* no request to the authentication layer has been recorded yet
AuthIdle == alast = NoAuthRequest

\* a request answered by a resource of auth.py (or a protected resource)
AuthAnswer(observed, req, r) ==
    /\ users' = r.users
    /\ blocklist' = r.blocklist
    /\ todos' = r.todos
    /\ tokens' = tokens \cup r.issued
    /\ alast' = IF observed THEN ALast(req, users, blocklist, todos, r) ELSE alast
    /\ UNCHANGED <<items, last>>

\* POST /auth/register up to the query of register_user: an existing user
\* ends the call with 400; otherwise the call goes on (another client's
\* request may be handled before it commits)
RegisterCheck ==
    \E c \in Clients, username \in Usernames, email \in Emails, observed \in BOOLEAN :
        /\ AuthIdle
        /\ reg[c].pc = "idle"
        /\ IF register_user_check(users, username, email) # NoneId
           THEN /\ AuthAnswer(observed,
                              AReq("register_user", DOMAIN users, username, email,
                                   None, NoToken, TRUE),
                              RegisterResource_post_exists(users, blocklist, todos))
                /\ UNCHANGED reg
           ELSE /\ reg' = [reg EXCEPT ![c] = [pc |-> "checked",
                                              username |-> username,
                                              email |-> email,
                                              seen |-> DOMAIN users]]
                /\ UNCHANGED <<todos, items, last, users, blocklist, tokens, alast>>

\* the rest of the call: hash, add, commit.  The password of the call plays
\* no part before this step, so it is drawn here.
RegisterCommit ==
    \E c \in Clients, password \in Passwords, salt \in Salts,
       observed \in BOOLEAN, commit_ok \in BOOLEAN :
    \E new_id \in NewIds(users, UserIds) :
        /\ AuthIdle
        /\ reg[c].pc = "checked"
        /\ AuthAnswer(observed,
                      AReq("register_user", reg[c].seen, reg[c].username,
                           reg[c].email, password, NoToken, commit_ok),
                      RegisterResource_post_commit(users, blocklist, todos, new_id,
                                                   reg[c].username, reg[c].email,
                                                   password, salt, commit_ok))
        /\ reg' = [reg EXCEPT ![c] = NoCall]

Login ==
    \E email \in Emails, password \in Passwords, observed \in BOOLEAN,
       query_ok \in BOOLEAN :
        LET r == LoginResource_post(users, blocklist, todos, email, password,
                                    Cardinality(tokens) + 1, query_ok)
        IN  /\ AuthIdle
            /\ r.issued = {} \/ Cardinality(tokens) < 2 * MaxLogins
            /\ AuthAnswer(observed,
                          AReq("login_user", {}, None, email, password, NoToken,
                               query_ok),
                          r)
            /\ UNCHANGED reg

ForgotPassword ==
    \E email \in Emails, observed \in BOOLEAN :
        /\ AuthIdle
        /\ AuthAnswer(observed,
                      AReq("forgot_password_logic", {}, None, email, None, NoToken, TRUE),
                      ForgotPasswordResource_post(users, blocklist, todos, email))
        /\ UNCHANGED reg

ResetPassword ==
    \E email \in Emails, password \in Passwords, salt \in Salts,
       observed \in BOOLEAN, commit_ok \in BOOLEAN :
        /\ AuthIdle
        /\ AuthAnswer(observed,
                      AReq("reset_password_logic", {}, None, email, password, NoToken,
                           commit_ok),
                      ResetPasswordResource_post(users, blocklist, todos, email,
                                                 password, salt, commit_ok))
        /\ UNCHANGED reg

Logout ==
    \E token \in tokens, observed \in BOOLEAN, commit_ok \in BOOLEAN :
        /\ AuthIdle
        /\ AuthAnswer(observed,
                      AReq("LogoutUser.post", {}, None, None, None, token, commit_ok),
                      LogoutUser_post(users, blocklist, todos, token, commit_ok))
        /\ UNCHANGED reg

Refresh ==
    \E token \in tokens, observed \in BOOLEAN :
        LET r == TokenRefreshResource_post(users, blocklist, todos, token,
                                           Cardinality(tokens) + 1)
        IN  /\ AuthIdle
            /\ r.issued = {} \/ Cardinality(tokens) < 2 * MaxLogins + MaxRefreshes
            /\ AuthAnswer(observed,
                          AReq("TokenRefreshResource.post", {}, None, None, None,
                               token, TRUE),
                          r)
            /\ UNCHANGED reg

AuthTodoGet ==
    \E token \in tokens, todo_id \in TodoIds, observed \in BOOLEAN :
        /\ AuthIdle
        /\ AuthAnswer(observed,
                      AReq("TodoResource.get", {}, None, None, None, token, TRUE),
                      AuthTodoResource_get(users, blocklist, todos, items, token,
                                           todo_id))
        /\ UNCHANGED reg

AuthTodoPost ==
    \E token \in tokens, observed \in BOOLEAN :
    \E new_id \in NewIds(todos, TodoIds) :
        /\ AuthIdle
        /\ AuthAnswer(observed,
                      AReq("TodoResource.post", {}, None, None, None, token, TRUE),
                      AuthTodoResource_post(users, blocklist, todos, items, token,
                                            new_id,
                                            Data({"title"},
                                                 TodoV("A", None, FALSE, {}, None))))
        /\ UNCHANGED reg

NextAuth ==
    \/ RegisterCheck \/ RegisterCommit \/ Login \/ ForgotPassword
    \/ ResetPassword \/ Logout \/ AuthTodoGet \/ AuthTodoPost

SpecAuth == Init /\ [][NextAuth]_vars

\* the life of the tokens: registration and login issue them, logout revokes
\* an access token, refresh issues another one, protected requests present
\* them
NextTokens ==
    \/ RegisterCheck \/ RegisterCommit \/ Login \/ Logout \/ Refresh
    \/ AuthTodoGet

SpecTokens == Init /\ [][NextTokens]_vars

\* ------------------------------------------- listings and serialization
\* The functions below only read: they are applied to stored tables of
\* every size up to MaxRows, for every user, page, per_page and date.
MaxRows == 120

\* item_logic.py: per_page=min(per_page, 100)
MaxPerPage == 100

\* Query.paginate with error_out=False: a page below 1 is page 1 and a
\* per_page below 1 is the library's default of 20
LibDefaultPerPage == 20

Dates == <<"2029-12-31", "2030-01-01", "2030-01-02">>

\* a < b for two dates
date_before(a, b) ==
    \E i, j \in DOMAIN Dates : Dates[i] = a /\ Dates[j] = b /\ i < j

Min(a, b) == IF a < b THEN a ELSE b

\* math.ceil(total / per_page)
ceil_div(total, per_page) == (total + per_page - 1) \div per_page

\* the rows of a query in the order the database returns them; the queries
\* have no ORDER BY and the rows come back by primary key
rows_in_order(S) == SelectSeq([i \in 1..MaxRows |-> i], LAMBDA i : i \in S)

Pagination(rows, total, page, pages, per_page) ==
    [items |-> rows, total |-> total, page |-> page, pages |-> pages,
     per_page |-> per_page]

\* mutant: the window starts at page * per_page
paginate_offset_by_one(rows, page, per_page) ==
    LET p  == IF page < 1 THEN 1 ELSE page
        pp == IF per_page < 1 THEN LibDefaultPerPage ELSE per_page
        n  == Len(rows)
    IN  Pagination(SubSeq(rows, p * pp + 1, Min((p + 1) * pp, n)), n, p,
                   IF n = 0 THEN 0 ELSE ceil_div(n, pp), pp)

\* query.paginate(page=page, per_page=per_page, error_out=False):
\* LIMIT per_page OFFSET (page - 1) * per_page, and a count of the query
paginate(rows, page, per_page) ==
    LET p  == IF page < 1 THEN 1 ELSE page
        pp == IF per_page < 1 THEN LibDefaultPerPage ELSE per_page
        n  == Len(rows)
    IN  Pagination(SubSeq(rows, (p - 1) * pp + 1, Min(p * pp, n)), n, p,
                   IF n = 0 THEN 0 ELSE ceil_div(n, pp), pp)

NoPage == Pagination(<<>>, 0, 0, 0, 0)

\* mutant: per_page is handed to paginate as it came
get_items_for_todo_unclamped(T, I, todo_id, user_id, page, per_page) ==
    LET todo == todo_first(T, todo_id, user_id) IN
    IF todo = NoneId
    THEN [result |-> NoPage, error |-> MsgTodoNoPermission]
    ELSE [result |-> paginate(rows_in_order({i \in DOMAIN I : I[i].todo_id = todo_id}),
                              page, per_page),
          error |-> None]

get_items_for_todo(T, I, todo_id, user_id, page, per_page) ==
    LET todo == todo_first(T, todo_id, user_id) IN
    IF todo = NoneId
    THEN [result |-> NoPage, error |-> MsgTodoNoPermission]
    ELSE [result |-> paginate(rows_in_order({i \in DOMAIN I : I[i].todo_id = todo_id}),
                              page, Min(per_page, MaxPerPage)),
          error |-> None]

\* mutant: the Todo listing clamps as the Item listing does
get_todos_clamped(T, user_id, page, per_page) ==
    paginate(rows_in_order({t \in DOMAIN T : T[t].user_id = user_id}),
             page, Min(per_page, MaxPerPage)).items

get_todos(T, user_id, page, per_page) ==
    paginate(rows_in_order({t \in DOMAIN T : T[t].user_id = user_id}),
             page, per_page).items

\* mutant: an Item due today is overdue
get_overdue_today_included(obj, today) ==
    /\ obj.due_date # None
    /\ obj.status # "Completed"
    /\ (obj.due_date = today \/ date_before(obj.due_date, today))

\* ItemSchema.get_overdue, with date.today() as a parameter
get_overdue(obj, today) ==
    /\ obj.due_date # None
    /\ obj.status # "Completed"
    /\ date_before(obj.due_date, today)

\* ItemSchema().dump(obj): the stored columns and the computed flag
ItemSchema_dump(id, obj, today) ==
    [id |-> id, content |-> obj.content, status |-> obj.status,
     due_date |-> obj.due_date, todo_id |-> obj.todo_id,
     overdue |-> get_overdue(obj, today)]

\* the stored tables the calls are applied to: nT todos and nI items.  Every
\* seventh Todo belongs to user 2, the others to user 1; every seventh Item
\* hangs under Todo 7 (when there is one), the others under Todo 1; status,
\* completed and due_date run through all their combinations.
StoredTodo(t) ==
    [title |-> "T", description |-> None,
     status |-> IF t % 2 = 0 THEN "Completed" ELSE DefaultTodoStatus,
     completed |-> (t % 4) \in {2, 3},
     user_id |-> IF t % 7 = 0 THEN 2 ELSE 1]

StoredItem(i, nT) ==
    NewItem("C",
            CASE i % 3 = 0 -> "Pending"
              [] i % 3 = 1 -> "Partially Completed"
              [] OTHER     -> "Completed",
            IF i % 4 = 0 THEN None ELSE Dates[i % 4],
            IF i % 7 = 0 /\ nT >= 7 THEN 7 ELSE 1)

TodoCounts == {0, 1, 4, 7, MaxRows}
ItemCounts == {0, 2, 12, MaxRows}

\* arguments of the calls
ListedTodos == {1, 7, NoSuchId}
PageArgs    == {-1, 0, 1, 2, 3, 4, 60, 200}
PerPageArgs == {-1, 0, 1, 2, 5, 50, MaxPerPage, MaxPerPage + 1, 150}
TodoStatusArgs == {"", "Completed", "In Progress", "whatever"}
UpdatedTodos == {1, 2, 3, 4, 7, NoSuchId}

\* update_todo payloads with one key: the values of the other keys are what
\* a payload carrying them would hold
CallBodies ==
    {Data({"status"}, TodoW("B", "d", s, TRUE, NoneId)) : s \in TodoStatusArgs}
    \cup {Data({"completed"}, TodoW("B", "d", "Completed", b, NoneId)) : b \in BOOLEAN}

InitCalls ==
    /\ \E nT \in TodoCounts, nI \in ItemCounts :
         /\ nT = 0 => nI = 0
         /\ todos = [t \in 1..nT |-> StoredTodo(t)]
         /\ items = [i \in 1..nI |-> StoredItem(i, nT)]
    /\ last = NoRequest
    /\ users = <<>>
    /\ blocklist = {}
    /\ tokens = {}
    /\ reg = [c \in Clients |-> NoCall]
    /\ alast = NoAuthRequest

\* one call of a function: its name and arguments, the tables it was applied
\* to and what it returned
Call(op, args, T, I, out) ==
    [op |-> op, args |-> args, todos |-> T, items |-> I, out |-> out]

CallGetItemsForTodo ==
    /\ Idle
    /\ \E user_id \in Users, todo_id \in ListedTodos, page \in PageArgs, per_page \in PerPageArgs :
         last' = Call("get_items_for_todo",
                      [user_id |-> user_id, todo_id |-> todo_id, page |-> page,
                       per_page |-> per_page],
                      todos, items,
                      get_items_for_todo(todos, items, todo_id, user_id, page, per_page))
    /\ UNCHANGED <<todos, items, authvars>>

CallGetTodos ==
    /\ Idle
    /\ \E user_id \in Users, page \in PageArgs, per_page \in PerPageArgs :
         last' = Call("get_todos",
                      [user_id |-> user_id, page |-> page, per_page |-> per_page],
                      todos, items, get_todos(todos, user_id, page, per_page))
    /\ UNCHANGED <<todos, items, authvars>>

CallDump ==
    /\ Idle
    /\ \E i \in DOMAIN items, d \in DOMAIN Dates :
         last' = Call("ItemSchema.dump", [id |-> i, today |-> Dates[d]],
                      todos, items, ItemSchema_dump(i, items[i], Dates[d]))
    /\ UNCHANGED <<todos, items, authvars>>

CallUpdateTodo ==
    /\ Idle
    /\ \E user_id \in Users, todo_id \in UpdatedTodos, data \in CallBodies, commit_ok \in BOOLEAN :
         LET r == update_todo(todos, items, todo_id, user_id, data, commit_ok) IN
         /\ last' = Call("update_todo",
                         [user_id |-> user_id, todo_id |-> todo_id, data |-> data],
                         todos, items, r)
         /\ todos' = r.todos
         /\ items' = r.items
    /\ UNCHANGED authvars

CallBulkUpdateTodos ==
    /\ Idle
    /\ \E user_id \in Users, todo_ids \in SUBSET {1, 2, 7}, status \in TodoStatusArgs, commit_ok \in BOOLEAN :
         LET r == bulk_update_todos(todos, items, user_id, todo_ids, "update_status",
                                    status, commit_ok) IN
         /\ last' = Call("bulk_update_todos",
                         [user_id |-> user_id, todo_ids |-> todo_ids, status |-> status],
                         todos, items, r)
         /\ todos' = r.todos
         /\ items' = r.items
    /\ UNCHANGED authvars

NextCalls ==
    \/ CallGetItemsForTodo \/ CallGetTodos \/ CallDump
    \/ CallUpdateTodo \/ CallBulkUpdateTodos

SpecCalls == InitCalls /\ [][NextCalls]_vars

\* ------------------------------------------------ requests that interleave
\* A business-logic function reaches the database twice: at its query and at
\* db.session.commit(), which flushes the session and commits.  Between the
\* two another request may commit.  Each client runs one call in two steps;
\* reg[c] holds the call of client c: its arguments, the rows its query
\* returned with the status they had, and what it answered once it is done.
RaceTodoCount == 2
RaceItemCount == 3

RaceTodoIds == 1..RaceTodoCount
RaceItemIds == 1..RaceItemCount
RaceNewIds  == 1..(RaceItemCount + NumClients)

RaceStatuses == {"Pending", "Completed"}

\* the tables the calls start from: Todos of user 1, the last Item under
\* Todo 2 and the others under Todo 1
RaceTodos == [t \in RaceTodoIds |-> StoredTodo(t)]
RaceItems == [i \in RaceItemIds |-> [StoredItem(i, RaceTodoCount) EXCEPT !.todo_id = IF i = RaceItemCount THEN 2 ELSE 1]]

InitRace ==
    /\ todos = RaceTodos
    /\ items = RaceItems
    /\ last = NoRequest
    /\ users = <<>>
    /\ blocklist = {}
    /\ tokens = {}
    /\ reg = [c \in Clients |-> NoCall]
    /\ alast = NoAuthRequest

\* a call after its query: the session holds the rows loaded
Loaded(op, user_id, ids, arg, rows) ==
    [pc |-> "loaded", op |-> op, user_id |-> user_id, ids |-> ids, arg |-> arg,
     rows |-> rows, commit_ok |-> TRUE, result |-> FALSE, error |-> None,
     raised |-> FALSE]

\* a call that has returned (result, error) or raised
Done(call, commit_ok, result, error, raised) ==
    [call EXCEPT !.pc = "done", !.commit_ok = commit_ok, !.result = result,
                 !.error = error, !.raised = raised]

\* the rows of a query as the session holds them: id -> status loaded
LoadedRows(tbl, sel) == [x \in sel |-> tbl[x].status]

\* mutant: the flush compares the status each row was loaded with (a version
\* check) and fails when another request has changed it
flush_status_versioned(tbl, rows, status) ==
    IF \A x \in DOMAIN rows : x \in DOMAIN tbl /\ tbl[x].status = rows[x]
    THEN [ok |-> TRUE,
          tbl |-> [x \in DOMAIN tbl |->
                      IF x \in DOMAIN rows THEN [tbl[x] EXCEPT !.status = status]
                      ELSE tbl[x]]]
    ELSE [ok |-> FALSE, tbl |-> tbl]

\* the flush of `row.status = status` for the rows loaded: an UPDATE ... WHERE
\* id = ? for every row whose status differs from the one it was loaded with;
\* an UPDATE that matches no row (the row is gone) raises StaleDataError
flush_status(tbl, rows, status) ==
    LET dirty == {x \in DOMAIN rows : rows[x] # status} IN
    IF dirty \subseteq DOMAIN tbl
    THEN [ok |-> TRUE,
          tbl |-> [x \in DOMAIN tbl |->
                      IF x \in dirty THEN [tbl[x] EXCEPT !.status = status]
                      ELSE tbl[x]]]
    ELSE [ok |-> FALSE, tbl |-> tbl]

\* bulk_update_items up to its commit: query, checks, item.status = action
RaceBulkItemsQuery ==
    \E c \in Clients, user_id \in Users, item_ids \in SUBSET RaceItemIds, action \in RaceStatuses \cup {"archive"} :
        LET sel  == items_in(todos, items, item_ids, user_id)
            call == Loaded("bulk_update_items", user_id, item_ids, action,
                           LoadedRows(items, sel))
        IN  /\ reg[c].pc = "idle"
            /\ item_ids # {}
            /\ reg' = [reg EXCEPT ![c] =
                         IF sel = {}
                         THEN Done(call, TRUE, FALSE, MsgItemNoPermission, FALSE)
                         ELSE IF action \notin VALID_STATUSES
                              THEN Done(call, TRUE, FALSE, MsgInvalidItemAction, FALSE)
                              ELSE call]
            /\ UNCHANGED <<todos, items, last, users, blocklist, tokens, alast>>

\* db.session.commit() of bulk_update_items; an exception leaves the function
RaceBulkItemsCommit ==
    \E c \in Clients, commit_ok \in BOOLEAN :
        LET f == flush_status(items, reg[c].rows, reg[c].arg) IN
        /\ reg[c].pc = "loaded"
        /\ reg[c].op = "bulk_update_items"
        /\ IF commit_ok /\ f.ok
           THEN /\ items' = f.tbl
                /\ reg' = [reg EXCEPT ![c] = Done(@, commit_ok, TRUE, None, FALSE)]
           ELSE /\ items' = items
                /\ reg' = [reg EXCEPT ![c] = Done(@, commit_ok, FALSE, None, TRUE)]
        /\ UNCHANGED <<todos, last, users, blocklist, tokens, alast>>

\* bulk_update_todos up to its commit
RaceBulkTodosQuery ==
    \E c \in Clients, user_id \in Users, todo_ids \in SUBSET RaceTodoIds, action \in {"delete", "update_status"}, status \in RaceStatuses \cup {""} :
        LET sel  == todos_in(todos, todo_ids, user_id)
            call == Loaded("bulk_update_todos", user_id, todo_ids,
                           IF action = "delete" THEN "delete" ELSE status,
                           LoadedRows(todos, sel))
        IN  /\ reg[c].pc = "idle"
            /\ todo_ids # {}
            /\ action = "delete" => status = ""
            /\ reg' = [reg EXCEPT ![c] =
                         IF sel = {}
                         THEN Done(call, TRUE, FALSE, MsgNoMatchingTodos, FALSE)
                         ELSE IF action = "update_status" /\ falsy(status)
                              THEN Done(call, TRUE, FALSE, MsgMissingStatus, FALSE)
                              ELSE call]
            /\ UNCHANGED <<todos, items, last, users, blocklist, tokens, alast>>

\* db.session.commit() of bulk_update_todos; an exception is caught, the
\* session rolled back and (False, str(e)) returned
RaceBulkTodosCommit ==
    \E c \in Clients, commit_ok \in BOOLEAN :
        LET f == flush_status(todos, reg[c].rows, reg[c].arg)
            d == session_delete_todo(todos, items, DOMAIN reg[c].rows)
        IN
        /\ reg[c].pc = "loaded"
        /\ reg[c].op = "bulk_update_todos"
        /\ IF commit_ok /\ reg[c].arg = "delete"
           THEN /\ todos' = d.todos
                /\ items' = d.items
                /\ reg' = [reg EXCEPT ![c] = Done(@, commit_ok, TRUE, None, FALSE)]
           ELSE IF commit_ok /\ f.ok
           THEN /\ todos' = f.tbl
                /\ items' = items
                /\ reg' = [reg EXCEPT ![c] = Done(@, commit_ok, TRUE, None, FALSE)]
           ELSE /\ todos' = todos
                /\ items' = items
                /\ reg' = [reg EXCEPT ![c] = Done(@, commit_ok, FALSE, ExcText, FALSE)]
        /\ UNCHANGED <<last, users, blocklist, tokens, alast>>

\* delete_todo up to its commit
RaceDeleteTodoQuery ==
    \E c \in Clients, user_id \in Users, todo_id \in RaceTodoIds :
        LET todo == todo_first(todos, todo_id, user_id)
            call == Loaded("delete_todo", user_id, {todo_id}, "delete",
                           LoadedRows(todos, {todo} \ {NoneId}))
        IN  /\ reg[c].pc = "idle"
            /\ reg' = [reg EXCEPT ![c] =
                         IF todo = NoneId
                         THEN Done(call, TRUE, FALSE, MsgTodoNotFound, FALSE)
                         ELSE call]
            /\ UNCHANGED <<todos, items, last, users, blocklist, tokens, alast>>

\* db.session.commit() of delete_todo: the flush loads the Items of the Todo
\* and deletes them with it
RaceDeleteTodoCommit ==
    \E c \in Clients, commit_ok \in BOOLEAN :
        LET d == session_delete_todo(todos, items, DOMAIN reg[c].rows) IN
        /\ reg[c].pc = "loaded"
        /\ reg[c].op = "delete_todo"
        /\ IF commit_ok
           THEN /\ todos' = d.todos
                /\ items' = d.items
                /\ reg' = [reg EXCEPT ![c] = Done(@, commit_ok, TRUE, None, FALSE)]
           ELSE /\ todos' = todos
                /\ items' = items
                /\ reg' = [reg EXCEPT ![c] = Done(@, commit_ok, FALSE, None, TRUE)]
        /\ UNCHANGED <<last, users, blocklist, tokens, alast>>

\* add_item_to_todo up to db.session.add(item)
RaceAddItemQuery ==
    \E c \in Clients, user_id \in Users, todo_id \in RaceTodoIds :
        LET todo == todo_first(todos, todo_id, user_id)
            call == Loaded("add_item_to_todo", user_id, {todo_id}, DefaultItemStatus,
                           LoadedRows(todos, {todo} \ {NoneId}))
        IN  /\ reg[c].pc = "idle"
            /\ reg' = [reg EXCEPT ![c] =
                         IF todo = NoneId
                         THEN Done(call, TRUE, NoneId, MsgTodoNoPermission, FALSE)
                         ELSE call]
            /\ UNCHANGED <<todos, items, last, users, blocklist, tokens, alast>>

\* the INSERT of the flush.  items.todo_id is declared
\* db.ForeignKey("todos.id"): a database that enforces foreign keys refuses
\* the row when the Todo is gone, one that does not (SQLite unless
\* PRAGMA foreign_keys is set, which the application never does) stores it
insert_item(T, I, new_id, item, enforced) ==
    IF enforced /\ item.todo_id \notin DOMAIN T
    THEN [ok |-> FALSE, items |-> I]
    ELSE [ok |-> TRUE, items |-> Put(I, new_id, item)]

\* db.session.commit() of add_item_to_todo; an exception leaves the function
RaceAddItemCommit ==
    \E c \in Clients, commit_ok \in BOOLEAN, enforced \in BOOLEAN :
    \E new_id \in NewIds(items, RaceNewIds) :
        LET todo == CHOOSE t \in DOMAIN reg[c].rows : TRUE
            ins  == insert_item(todos, items, new_id,
                                NewItem("C", reg[c].arg, None, todo), enforced)
        IN
        /\ reg[c].pc = "loaded"
        /\ reg[c].op = "add_item_to_todo"
        /\ IF commit_ok /\ ins.ok
           THEN /\ items' = ins.items
                /\ reg' = [reg EXCEPT ![c] = Done(@, commit_ok, new_id, None, FALSE)]
           ELSE /\ items' = items
                /\ reg' = [reg EXCEPT ![c] = Done(@, commit_ok, NoneId, None, TRUE)]
        /\ UNCHANGED <<todos, last, users, blocklist, tokens, alast>>

NextRace ==
    \/ RaceBulkItemsQuery \/ RaceBulkItemsCommit
    \/ RaceBulkTodosQuery \/ RaceBulkTodosCommit
    \/ RaceDeleteTodoQuery \/ RaceDeleteTodoCommit
    \/ RaceAddItemQuery \/ RaceAddItemCommit

SpecRace == InitRace /\ [][NextRace]_vars

\* ============================================================== claims
Observed == last.op # "none"

\* the observed request left both tables as they were
Untouched == todos = last.todos /\ items = last.items

\* the user an item belongs to: the owner of its parent todo (0: no parent)
ItemOwner(T, I, i) ==
    IF I[i].todo_id \in DOMAIN T THEN T[I[i].todo_id].user_id ELSE 0

\* the answer of the observed request
Response == <<last.http, last.msg, last.ent>>

ResponseOf(r) == <<r.http, r.msg, r.ent>>

\* C1: a request of user U never creates, changes or deletes a todo owned by
\* another user V, nor an item whose parent todo is owned by V: every todo and
\* item of another user that was there before the request is there unchanged
\* after it, and every row the request created belongs to U.
Inv_C1_OtherUsersRowsUntouched ==
    Observed =>
      /\ \A t \in DOMAIN last.todos :
            last.todos[t].user_id # last.user
               => t \in DOMAIN todos /\ todos[t] = last.todos[t]
      /\ \A t \in DOMAIN todos \ DOMAIN last.todos :
            todos[t].user_id = last.user
      /\ \A i \in DOMAIN last.items :
            ItemOwner(last.todos, last.items, i) # last.user
               => i \in DOMAIN items /\ items[i] = last.items[i]
      /\ \A i \in DOMAIN items \ DOMAIN last.items :
            ItemOwner(todos, items, i) = last.user

\* a request of U changed the tables while another user had a todo with an item
Wit_C1 ==
    /\ Observed
    /\ ~Untouched
    /\ \E i \in DOMAIN last.items :
          ItemOwner(last.todos, last.items, i) \notin {0, last.user}

\* the single-row requests: a read, an update or a delete of one todo or item
TodoRowOps == {"TodoResource.get", "TodoResource.put", "TodoResource.delete"}

ItemRowOps == {"ItemResource.get", "ItemResource.put", "ItemResource.delete",
               "update_item_status", "delete_item", "get_item_by_id"}

\* the observed single-row request, issued again on the same tables for the
\* row `id`, with commit outcome c
Replay(id, c) ==
    LET T == last.todos
        I == last.items
        u == last.user
    IN  CASE last.op = "TodoResource.get" -> TodoResource_get(T, I, id, u)
          [] last.op = "TodoResource.put" -> TodoResource_put(T, I, id, u, last.data, c)
          [] last.op = "TodoResource.delete" -> TodoResource_delete(T, I, id, u, c)
          [] last.op = "ItemResource.get" -> ItemResource_get(T, I, last.todo_id, id, u)
          [] last.op = "ItemResource.put" ->
                ItemResource_put(T, I, last.todo_id, id, u, last.data, c)
          [] last.op = "ItemResource.delete" ->
                ItemResource_delete(T, I, last.todo_id, id, u, c)
          [] last.op = "update_item_status" ->
                LET r == update_item_status(T, I, id, u, last.arg, c)
                IN  Called(r, r.result)
          [] last.op = "delete_item" -> Called(delete_item(T, I, id, u, c), NoneId)
          [] last.op = "get_item_by_id" ->
                LET item == get_item_by_id(T, I, id, u)
                IN  Called(Ret(T, I, item, None, FALSE), item)

\* the row the observed single-row request names
Target == CHOOSE id \in last.ids : TRUE

\* the observed request names a row that exists and belongs to another user
ForeignTarget ==
    /\ Observed
    /\ \/ /\ last.op \in TodoRowOps
          /\ Target \in DOMAIN last.todos
          /\ last.todos[Target].user_id # last.user
       \/ /\ last.op \in ItemRowOps
          /\ Target \in DOMAIN last.items
          /\ ItemOwner(last.todos, last.items, Target) # last.user

\* C2: a read, update or delete by user B of a todo or item that exists and
\* belongs to another user A is answered exactly as B's same request for an id
\* that does not exist (same HTTP status, message and result), and changes
\* nothing.
Inv_C2_ForeignLikeMissing ==
    ForeignTarget =>
      /\ \A c \in BOOLEAN : Response = ResponseOf(Replay(NoSuchId, c))
      /\ Untouched

\* B asked to update A's todo and was answered 403
Wit_C2 ==
    /\ ForeignTarget
    /\ last.op = "TodoResource.put"
    /\ last.data.has # {}
    /\ last.http = 403

\* C3: when DELETE /todos/<id> or a bulk "delete" succeeds, every todo it
\* removed is gone together with all the items it had: no item with that
\* todo_id is left, however many there were.
Inv_C3_DeleteCascades ==
    ( /\ Observed
      /\ \/ last.op = "TodoResource.delete"
         \/ (last.op = "TodoResource.put.bulk" /\ last.arg = "delete")
      /\ last.http = 200 )
    =>
      /\ DOMAIN last.todos \ DOMAIN todos # {}
      /\ last.op = "TodoResource.delete" => last.todo_id \notin DOMAIN todos
      /\ \A t \in DOMAIN last.todos \ DOMAIN todos :
            \A i \in DOMAIN items : items[i].todo_id # t

\* a todo with two items was deleted
Wit_C3 ==
    /\ Observed
    /\ last.op = "TodoResource.delete"
    /\ last.http = 200
    /\ Cardinality({i \in DOMAIN last.items :
                       last.items[i].todo_id = last.todo_id}) = MaxItems

\* C4 (as claimed): every stored item has one of the three statuses.
Inv_C4_ItemStatusValid ==
    \A i \in DOMAIN items : items[i].status \in VALID_STATUSES

\* C5: update_item_status on an item the caller owns, with a status outside
\* the three values (the empty string included), returns (None, "Invalid
\* status...") and leaves the item as it was.
Inv_C5_InvalidStatusRejected ==
    ( /\ Observed
      /\ last.op = "update_item_status"
      /\ Target \in DOMAIN last.items
      /\ ItemOwner(last.todos, last.items, Target) = last.user
      /\ last.arg \notin VALID_STATUSES )
    =>
      /\ last.msg = MsgInvalidStatus
      /\ last.ent = NoneId
      /\ Untouched

\* the owner asked for the empty status
Wit_C5 ==
    /\ Observed
    /\ last.op = "update_item_status"
    /\ Target \in DOMAIN last.items
    /\ ItemOwner(last.todos, last.items, Target) = last.user
    /\ last.arg = ""
    /\ last.msg = MsgInvalidStatus

\* ------------------------------------------------------- bulk requests
BulkTodos == last.op = "TodoResource.put.bulk"

BulkItems == last.op = "ItemsBulkResource.put"

\* the requested ids that exist and belong to the requester
OwnedTodoIds ==
    {t \in last.ids \cap DOMAIN last.todos : last.todos[t].user_id = last.user}

OwnedItemIds ==
    {i \in last.ids \cap DOMAIN last.items :
        ItemOwner(last.todos, last.items, i) = last.user}

\* the status a bulk todo request carries (None when the body has none)
BulkStatus == IF "status" \in last.data.has THEN last.data.v.status ELSE None

\* the request is one the contract allows: "delete", or a status to set
ValidBulkTodos ==
    \/ last.arg = "delete"
    \/ (last.arg = "update_status" /\ BulkStatus \notin {None, ""})

ValidBulkItems == last.arg = "delete" \/ last.arg \in VALID_STATUSES

\* the tables are the old ones with the action applied to exactly the todos S
AppliedToTodos(S) ==
    IF last.arg = "delete"
    THEN /\ DOMAIN todos = DOMAIN last.todos \ S
         /\ \A t \in DOMAIN todos : todos[t] = last.todos[t]
         /\ DOMAIN items = {i \in DOMAIN last.items : last.items[i].todo_id \notin S}
         /\ \A i \in DOMAIN items : items[i] = last.items[i]
    ELSE /\ DOMAIN todos = DOMAIN last.todos
         /\ \A t \in S : todos[t] = [last.todos[t] EXCEPT !.status = BulkStatus]
         /\ \A t \in DOMAIN todos \ S : todos[t] = last.todos[t]
         /\ items = last.items

\* the tables are the old ones with the action applied to exactly the items S
AppliedToItems(S) ==
    /\ todos = last.todos
    /\ IF last.arg = "delete"
       THEN /\ DOMAIN items = DOMAIN last.items \ S
            /\ \A i \in DOMAIN items : items[i] = last.items[i]
       ELSE /\ DOMAIN items = DOMAIN last.items
            /\ \A i \in S : items[i] = [last.items[i] EXCEPT !.status = last.arg]
            /\ \A i \in DOMAIN items \ S : items[i] = last.items[i]

\* C6: a bulk request (a valid action, its commit going through) whose id
\* list mixes ids the requester owns with ids of other users or of no row
\* succeeds, applies the action to exactly the requested ids the requester
\* owns and leaves every other todo and item as it was.
Inv_C6_BulkMixedIds ==
    /\ ( /\ Observed /\ BulkTodos /\ ValidBulkTodos /\ last.commit_ok
         /\ OwnedTodoIds # {} /\ last.ids \ OwnedTodoIds # {} )
       => (last.http = 200 /\ AppliedToTodos(OwnedTodoIds))
    /\ ( /\ Observed /\ BulkItems /\ ValidBulkItems /\ last.commit_ok
         /\ OwnedItemIds # {} /\ last.ids \ OwnedItemIds # {} )
       => (last.http = 200 /\ AppliedToItems(OwnedItemIds))

\* a bulk status update named an item of the requester and an item of another
\* user, and succeeded
Wit_C6 ==
    /\ Observed /\ BulkItems /\ last.arg = "Completed"
    /\ last.http = 200
    /\ OwnedItemIds # {}
    /\ \E i \in last.ids \cap DOMAIN last.items :
          ItemOwner(last.todos, last.items, i) # last.user

\* C7: when none of the requested ids is a row of the requester, a bulk request
\* fails with the not-found error and changes nothing, also when some of the ids
\* exist under another user (PUT /todos/items/bulk answers an empty list before
\* it calls bulk_update_items).
Inv_C7_BulkNoneOwned ==
    /\ (Observed /\ BulkTodos /\ OwnedTodoIds = {})
       => (last.http = 400 /\ last.msg = MsgNoMatchingTodos /\ Untouched)
    /\ (Observed /\ BulkItems /\ last.ids # {} /\ OwnedItemIds = {})
       => (last.http = 404 /\ last.msg = MsgItemNoPermission /\ Untouched)

\* a bulk delete named only todos of another user
Wit_C7 ==
    /\ Observed /\ BulkTodos /\ last.arg = "delete"
    /\ last.ids # {}
    /\ last.ids \subseteq DOMAIN last.todos
    /\ OwnedTodoIds = {}
    /\ last.msg = MsgNoMatchingTodos

\* C8: a bulk request either reports success and the action is applied to
\* every row of the ownership-filtered set, or reports failure and both tables
\* are as they were; no partly applied state is committed.
Inv_C8_BulkAllOrNothing ==
    /\ (Observed /\ BulkTodos)
       => \/ (last.http = 200 /\ OwnedTodoIds # {} /\ AppliedToTodos(OwnedTodoIds))
          \/ (last.http # 200 /\ Untouched)
    /\ (Observed /\ BulkItems)
       => \/ (last.http = 200 /\ OwnedItemIds # {} /\ AppliedToItems(OwnedItemIds))
          \/ (last.http # 200 /\ Untouched)

\* a bulk status update of two todos of the requester succeeded
Wit_C8 ==
    /\ Observed /\ BulkTodos /\ last.arg = "update_status"
    /\ last.http = 200
    /\ Cardinality(OwnedTodoIds) = 2
    /\ \E t \in OwnedTodoIds : todos[t] # last.todos[t]

\* C9 (as claimed): when the commit of a bulk request raises, nothing is
\* committed and the answer carries no text of the exception.
Inv_C9_BulkCommitFailureGeneric ==
    ( /\ Observed
      /\ ~last.commit_ok
      /\ \/ (BulkTodos /\ ValidBulkTodos /\ OwnedTodoIds # {})
         \/ (BulkItems /\ ValidBulkItems /\ OwnedItemIds # {}) )
    => (Untouched /\ last.http # 200 /\ last.msg # ExcText)

\* C10 (as claimed): a bulk todo request with action "update_status" and no or
\* an empty status fails with "Missing status for bulk update", one with an
\* action other than "delete" and "update_status" fails with "Invalid action";
\* no todo is changed.  (Stated for the requests that name at least one id.)
Inv_C10_Original ==
    /\ ( /\ Observed /\ BulkTodos /\ last.ids # {}
         /\ last.arg = "update_status" /\ BulkStatus \in {None, ""} )
       => (last.http = 400 /\ last.msg = MsgMissingStatus /\ Untouched)
    /\ ( /\ Observed /\ BulkTodos /\ last.ids # {}
         /\ last.arg \notin {"delete", "update_status"} )
       => (last.http = 400 /\ last.msg = MsgInvalidAction /\ Untouched)

\* C10 (amended): the same, when at least one requested id is a todo of the
\* requester; when none is, the answer is "No matching todos found".
Inv_C10_BulkTodoValidation ==
    /\ ( /\ Observed /\ BulkTodos /\ OwnedTodoIds # {}
         /\ last.arg = "update_status" /\ BulkStatus \in {None, ""} )
       => (last.http = 400 /\ last.msg = MsgMissingStatus /\ Untouched)
    /\ ( /\ Observed /\ BulkTodos /\ OwnedTodoIds # {}
         /\ last.arg \notin {"delete", "update_status"} )
       => (last.http = 400 /\ last.msg = MsgInvalidAction /\ Untouched)
    /\ ( /\ Observed /\ BulkTodos /\ OwnedTodoIds = {} )
       => (last.http = 400 /\ last.msg = MsgNoMatchingTodos /\ Untouched)

\* a bulk "update_status" with an empty status named a todo of the requester
Wit_C10 ==
    /\ Observed /\ BulkTodos /\ OwnedTodoIds # {}
    /\ last.arg = "update_status"
    /\ "status" \in last.data.has /\ last.data.v.status = ""
    /\ last.msg = MsgMissingStatus

\* ------------------------------------------------------- single rows
\* C11: after create_todo(title, user_id, ...) went through, get_todo_by_id
\* with the returned id and the same user finds a todo with that title and
\* user_id; its status is "In Progress" when no status was supplied (the
\* supplied one otherwise) and completed is false.  The row is new, and the
\* todos that were there are as they were.
Inv_C11_CreateThenRead ==
    ( /\ Observed
      /\ last.op = "TodoResource.post"
      /\ "title" \in last.data.has
      /\ last.commit_ok )
    =>
      /\ last.http = 201
      /\ last.ent \notin DOMAIN last.todos
      /\ get_todo_by_id(todos, last.ent, last.user) = last.ent
      /\ todos[last.ent].title = last.data.v.title
      /\ todos[last.ent].user_id = last.user
      /\ todos[last.ent].status =
            IF "status" \in last.data.has THEN last.data.v.status
                                          ELSE "In Progress"
      /\ todos[last.ent].completed = FALSE
      /\ \A t \in DOMAIN last.todos : t \in DOMAIN todos /\ todos[t] = last.todos[t]
      /\ DOMAIN todos = DOMAIN last.todos \cup {last.ent}

\* a second todo was created with a title and no status
Wit_C11 ==
    /\ Observed
    /\ last.op = "TodoResource.post"
    /\ last.http = 201
    /\ "status" \notin last.data.has
    /\ last.data.v.title = "B"
    /\ DOMAIN last.todos # {}
    /\ todos[last.ent].status = "In Progress"

\* the todo the observed PUT /todos/<id> names is a todo of the requester
OwnTodoTarget ==
    /\ last.todo_id \in DOMAIN last.todos
    /\ last.todos[last.todo_id].user_id = last.user

\* field f of the named todo after the update, as the payload prescribes
Merged(f) ==
    IF f \in last.data.has THEN last.data.v[f] ELSE last.todos[last.todo_id][f]

\* C12: update_todo on a todo of the requester sets exactly the fields among
\* title, description, status and completed that the payload carries, to the
\* values it carries; the other fields, the todo's id and user_id, all items
\* and all other todos stay as they were.  On a todo that is missing or not
\* the requester's it answers (None, "Todo not found") and changes nothing.
Inv_C12_UpdateMergesSuppliedFields ==
    ( /\ Observed
      /\ last.op = "TodoResource.put"
      /\ last.data.has # {} )
    =>
      /\ (OwnTodoTarget /\ last.commit_ok) =>
            /\ last.http = 200
            /\ last.ent = last.todo_id
            /\ DOMAIN todos = DOMAIN last.todos
            /\ todos[last.todo_id] =
                  [title |-> Merged("title"), description |-> Merged("description"),
                   status |-> Merged("status"), completed |-> Merged("completed"),
                   user_id |-> last.todos[last.todo_id].user_id]
            /\ \A t \in DOMAIN todos \ {last.todo_id} : todos[t] = last.todos[t]
            /\ items = last.items
      /\ ~OwnTodoTarget =>
            /\ last.http = 403
            /\ last.msg = MsgTodoNotFound
            /\ last.ent = NoneId
            /\ Untouched

\* a payload with description and completed only changed those two fields of
\* a todo that has an item, next to another todo
Wit_C12 ==
    /\ Observed
    /\ last.op = "TodoResource.put"
    /\ last.data.has = {"description", "completed"}
    /\ last.http = 200
    /\ Cardinality(DOMAIN last.todos) = 2
    /\ \E i \in DOMAIN last.items : last.items[i].todo_id = last.todo_id
    /\ todos[last.todo_id].completed
    /\ ~last.todos[last.todo_id].completed
    /\ todos[last.todo_id].title = last.todos[last.todo_id].title

\* C13: no step changes the user_id of a todo or the todo_id of an item: a
\* row that is there before and after a request has the owner and the parent
\* it had, whatever keys the payload of an update carries.
Inv_C13_OwnerAndParentFixed ==
    [][ /\ \A t \in DOMAIN todos \cap DOMAIN todos' :
              todos'[t].user_id = todos[t].user_id
        /\ \A i \in DOMAIN items \cap DOMAIN items' :
              items'[i].todo_id = items[i].todo_id ]_vars

\* an update whose payload carried another user's id as "user_id" went
\* through and changed the todo
Wit_C13 ==
    /\ Observed
    /\ last.op = "TodoResource.put"
    /\ "user_id" \in last.data.has
    /\ last.data.v.user_id \notin {NoneId, last.user}
    /\ last.http = 200
    /\ todos[last.todo_id] # last.todos[last.todo_id]

\* ------------------------------------------------------ creating items
AddsItem == last.op \in {"add_item_to_todo", "ItemsResource.post"}

\* the raw body of the observed POST is one ItemSchema accepts
PostBodyValid ==
    /\ "content" \in last.data.has
    /\ "todo_id" \notin last.data.has
    /\ "status" \in last.data.has => last.data.v.status \in VALID_STATUSES

\* what the observed request asks to store
AskedContent ==
    IF last.op = "add_item_to_todo" THEN "c" ELSE last.data.v.content

AskedStatus ==
    IF last.op = "add_item_to_todo"
    THEN (IF last.arg = None THEN "Pending" ELSE last.arg)
    ELSE (IF "status" \in last.data.has THEN last.data.v.status ELSE "Pending")

\* nothing but the one new item last.ent, with the asked content and status,
\* under the todo of the path
OneItemAdded ==
    /\ last.ent \notin DOMAIN last.items
    /\ DOMAIN items = DOMAIN last.items \cup {last.ent}
    /\ \A i \in DOMAIN last.items : items[i] = last.items[i]
    /\ items[last.ent].content = AskedContent
    /\ items[last.ent].status = AskedStatus
    /\ items[last.ent].todo_id = last.todo_id
    /\ todos = last.todos

\* C19 (as claimed): add_item_to_todo and POST /todos/<todo_id>/items on a
\* todo that is missing or not the requester's fail with "Todo not found or
\* you don't have permission" and create no item.
Inv_C19_Original ==
    (Observed /\ AddsItem /\ ~OwnTodoTarget)
    => (last.msg = MsgTodoNoPermission /\ last.ent = NoneId /\ Untouched)

\* C19 (amended): the same for add_item_to_todo and for a POST whose body the
\* schema accepts; a POST whose body it refuses is answered 422 whoever owns
\* the todo, and creates no item.  On a todo of the requester, when the commit
\* goes through, exactly one item is added, with the given content, the todo's
\* id and the given status, "Pending" when none is given; when the commit
\* raises, no item is added.
Inv_C19_AddItemUnderOwnTodo ==
    (Observed /\ AddsItem) =>
      LET valid == last.op = "add_item_to_todo" \/ PostBodyValid IN
      /\ ~valid => (last.http = 422 /\ last.ent = NoneId /\ Untouched)
      /\ (valid /\ ~OwnTodoTarget) =>
            /\ last.msg = MsgTodoNoPermission
            /\ last.ent = NoneId
            /\ last.op = "ItemsResource.post" => last.http = 404
            /\ Untouched
      /\ (valid /\ OwnTodoTarget /\ last.commit_ok) =>
            /\ last.ent # NoneId
            /\ last.op = "ItemsResource.post" => last.http = 201
            /\ OneItemAdded
      /\ (valid /\ OwnTodoTarget /\ ~last.commit_ok) =>
            (last.ent = NoneId /\ Untouched)

\* a POST without a status added a second item, with status "Pending"
Wit_C19 ==
    /\ Observed
    /\ last.op = "ItemsResource.post"
    /\ "status" \notin last.data.has
    /\ last.http = 201
    /\ DOMAIN last.items # {}
    /\ items[last.ent].status = "Pending"

\* ------------------------------------------------- items by todo and id
ItemPathOps == {"ItemResource.get", "ItemResource.put", "ItemResource.delete"}

\* the observed request names an item of the requester under a todo_id that
\* is not the item's parent
CrossTodo ==
    /\ Observed
    /\ last.op \in ItemPathOps
    /\ Target \in DOMAIN last.items
    /\ ItemOwner(last.todos, last.items, Target) = last.user
    /\ last.items[Target].todo_id # last.todo_id

\* the raw body of the observed PUT is one ItemSchema(partial=True) accepts
PutBodyValid ==
    /\ "todo_id" \notin last.data.has
    /\ "status" \in last.data.has => last.data.v.status \in VALID_STATUSES

\* C20 (as claimed): GET, PUT and DELETE /todos/<todo_id>/items/<item_id> for
\* an item of the requester that belongs to another todo than <todo_id> are
\* answered 404 "Item not found or you don't have permission", and the item
\* stays as it was.
Inv_C20_Original ==
    CrossTodo =>
      (last.http = 404 /\ last.msg = MsgItemNoPermission /\ Untouched)

\* C20 (amended): such a request is answered exactly as the same request for
\* an item id that no row has, and changes nothing; the answer is the 404
\* for GET, DELETE and a PUT whose body the schema accepts, and the 422 of
\* the validation for a PUT whose body it refuses.
Inv_C20_CrossTodoLikeMissing ==
    CrossTodo =>
      /\ Untouched
      /\ last.ent = NoneId
      /\ \A c \in BOOLEAN : Response = ResponseOf(Replay(NoSuchId, c))
      /\ IF last.op = "ItemResource.put" /\ ~PutBodyValid
         THEN last.http = 422
         ELSE last.http = 404 /\ last.msg = MsgItemNoPermission

\* the requester has two todos and asked to delete the item of one of them
\* under the id of the other
Wit_C20 ==
    /\ CrossTodo
    /\ last.op = "ItemResource.delete"
    /\ last.commit_ok
    /\ last.todo_id \in DOMAIN last.todos
    /\ last.todos[last.todo_id].user_id = last.user
    /\ last.http = 404

\* ------------------------------------------------------------ the users
\* C14: in every reachable state no two different users share a username and
\* no two share an email, also when calls of register_user are interleaved
\* (both ran their query before either committed).
Inv_C14_UsernameAndEmailUnique ==
    \A u \in DOMAIN users : \A v \in DOMAIN users :
        u # v => /\ users[u].username # users[v].username
                 /\ users[u].email # users[v].email

\* the row that stands in the way of the observed call of register_user
Collides(U) ==
    \E u \in DOMAIN U : U[u].username = alast.username \/ U[u].email = alast.email

\* an interleaved call: its query found nobody, a colliding user was committed
\* before its own commit, and its row was not inserted
Wit_C14 ==
    /\ alast.op = "register_user"
    /\ alast.password # None
    /\ alast.commit_ok
    /\ ~ \E u \in alast.seen : \/ alast.users[u].username = alast.username
                               \/ alast.users[u].email = alast.email
    /\ Collides(alast.users)
    /\ users = alast.users

\* the observed call of register_user ran from its query to its return with
\* no other commit to the users in between
Uninterrupted == alast.seen = DOMAIN alast.users

\* the users after the observed call: the ones before and one more, with the
\* username and email of the call and a hash of its password
OneUserCreated ==
    \E n \in DOMAIN users \ DOMAIN alast.users :
        /\ DOMAIN users = DOMAIN alast.users \cup {n}
        /\ \A u \in DOMAIN alast.users : users[u] = alast.users[u]
        /\ users[n].username = alast.username
        /\ users[n].email = alast.email
        /\ \E salt \in Salts :
               users[n].password = hash_password(alast.password, salt)
        /\ verify_password(alast.password, users[n].password)
        /\ alast.id = n

\* C15: register_user (POST /auth/register) called with a username or an
\* email that an existing user has fails with the "already exists" error,
\* HTTP 400, and the users stay as they were (either collision is enough);
\* otherwise, when its commit goes through, it creates exactly one user with
\* that username and email and is answered 201.
Inv_C15_RegisterRefusesCollision ==
    (alast.op = "register_user" /\ Uninterrupted) =>
        /\ Collides(alast.users) =>
               /\ alast.http = 400
               /\ alast.msg = MsgUserExists
               /\ alast.id = NoneId
               /\ users = alast.users
        /\ (~Collides(alast.users) /\ alast.commit_ok) =>
               /\ alast.http = 201
               /\ OneUserCreated
        /\ (~Collides(alast.users) /\ ~alast.commit_ok) =>
               /\ alast.http = 400
               /\ users = alast.users
        /\ todos = alast.todos
        /\ blocklist = alast.blocklist

\* a call refused although only its email is taken: the username is new
Wit_C15 ==
    /\ alast.op = "register_user"
    /\ Uninterrupted
    /\ \E u \in DOMAIN alast.users : alast.users[u].email = alast.email
    /\ \A u \in DOMAIN alast.users : alast.users[u].username # alast.username
    /\ alast.msg = MsgUserExists
    /\ users = alast.users

\* ------------------------------------------------------------ logging in
\* the users of U with this email whose stored credential is a hash of the
\* password
Holders(U, email, password) ==
    {u \in DOMAIN U : /\ U[u].email = email
                      /\ \E salt \in Salts :
                             U[u].password = hash_password(password, salt)}

\* C16: login_user returns tokens if and only if a user with the given email
\* exists and the password verifies against that user's stored credential
\* (an access and a refresh token for that user, HTTP 200); a wrong password
\* for an existing email and any password for an unknown email get the one
\* and the same answer, (None, "Invalid email or password") and HTTP 401, and
\* login_user changes nothing (logins whose query of the user went through).
Inv_C16_LoginIffCredentialVerifies ==
    (alast.op = "login_user" /\ alast.commit_ok) =>
        LET holders == Holders(alast.users, alast.email, alast.password) IN
        /\ alast.issued # {} <=> holders # {}
        /\ alast.issued # {} =>
               /\ alast.http = 200
               /\ \E u \in holders : \E j \in 1..(2 * MaxLogins) :
                      alast.issued = {Token(j, u, "access"),
                                      Token(j + 1, u, "refresh")}
        /\ alast.issued = {} =>
               <<alast.http, alast.msg, alast.id>> = <<401, MsgInvalidLogin, NoneId>>
        /\ users = alast.users
        /\ todos = alast.todos
        /\ blocklist = alast.blocklist

\* a refused login with an email that no user has, while another email is
\* registered (for which a wrong password gets the same answer)
Wit_C16 ==
    /\ alast.op = "login_user"
    /\ alast.commit_ok
    /\ \A u \in DOMAIN alast.users : alast.users[u].email # alast.email
    /\ alast.users # <<>>
    /\ alast.http = 401
    /\ alast.msg = MsgInvalidLogin

\* ------------------------------------------------- resetting a password
\* the user the observed request names by its email
Named == {u \in DOMAIN alast.users : alast.users[u].email = alast.email}

\* the passwords that log in with this email on the users U
LogsIn(U, email) ==
    {p \in Passwords : login_user(U, email, p, 1, TRUE).result # {}}

\* C17: after reset_password_logic(email, p) succeeded for an existing user,
\* login_user(email, p) succeeds and login_user with the previous password,
\* when it is not p, fails; only the password of that user changed: its id,
\* username and email, its todos and all other users are as before.  For an
\* unknown email it returns (False, "User not found"), HTTP 400, and changes
\* nothing.
Inv_C17_ResetReplacesPassword ==
    alast.op = "reset_password_logic" =>
        /\ (Named # {} /\ alast.commit_ok) =>
               /\ alast.http = 200
               /\ alast.msg = MsgResetOk
               /\ LogsIn(users, alast.email) = {alast.password}
               /\ \A q \in LogsIn(alast.users, alast.email) :
                      q # alast.password
                          => login_user(users, alast.email, q, 1, TRUE).result = {}
               /\ DOMAIN users = DOMAIN alast.users
               /\ \A u \in DOMAIN users :
                      /\ users[u].username = alast.users[u].username
                      /\ users[u].email = alast.users[u].email
                      /\ u \notin Named => users[u] = alast.users[u]
        /\ Named = {} =>
               /\ alast.http = 400
               /\ alast.msg = MsgUserNotFound
               /\ users = alast.users
        /\ ~alast.commit_ok => users = alast.users
        /\ todos = alast.todos
        /\ blocklist = alast.blocklist

\* a reset to a password other than the previous one, for a user that owns a
\* todo, with another user registered
Wit_C17 ==
    /\ alast.op = "reset_password_logic"
    /\ alast.http = 200
    /\ \E u \in Named : \E t \in DOMAIN todos : todos[t].user_id = u
    /\ \E u \in DOMAIN users : u \notin Named
    /\ \E q \in LogsIn(alast.users, alast.email) : q # alast.password

\* --------------------------------------------------------- logging out
\* the requests behind @jwt_required() that the model sends with a token
ProtectedOps == {"LogoutUser.post", "TodoResource.get", "TodoResource.post"}

\* the observed request presented a token that had been logged out before
PresentsRevoked ==
    /\ alast.op \in ProtectedOps
    /\ alast.token.jti \in alast.blocklist

\* C18: after POST /auth/logout succeeded with an access token, the jti of
\* the token is in the blocklist and the revocation check reports the token
\* revoked; entries of the blocklist are never removed; and every later
\* request that presents a token whose jti is in the blocklist is rejected
\* (401 "Token has been revoked") and changes nothing.
Inv_C18_LoggedOutTokenStaysRevoked ==
    /\ []((alast.op = "LogoutUser.post" /\ alast.http = 200) =>
              /\ alast.token.type = "access"
              /\ alast.token.jti \in blocklist
              /\ check_if_token_revoked(blocklist, alast.token))
    /\ [][/\ blocklist \subseteq blocklist'
          /\ \A t \in tokens : check_if_token_revoked(blocklist, t)
                                   => check_if_token_revoked(blocklist', t)]_vars
    /\ [](PresentsRevoked =>
              /\ alast.http = 401
              /\ alast.msg = MsgRevoked
              /\ users = alast.users
              /\ todos = alast.todos
              /\ blocklist = alast.blocklist)

\* a GET /todos/<id> for a todo of the token's user, presented with the token
\* after it was logged out, and refused
Wit_C18 ==
    /\ alast.op = "TodoResource.get"
    /\ PresentsRevoked
    /\ \E t \in DOMAIN todos : todos[t].user_id = alast.token.sub
    /\ alast.http = 401

\* ------------------------------------------------------- after a delete
\* the observed request deleted items and reported success
DeletedItems ==
    IF \/ last.op = "delete_item" /\ last.msg = None
       \/ last.op = "ItemResource.delete" /\ last.http = 200
       \/ last.op = "ItemsBulkResource.put" /\ last.arg = "delete" /\ last.http = 200
    THEN {i \in last.ids \cap DOMAIN last.items :
              ItemOwner(last.todos, last.items, i) = last.user}
    ELSE {}

\* every way the owner can read item i, or delete it again, says not found
\* and leaves the tables as they are
GoneFor(i, u) ==
    /\ get_item_by_id(todos, items, i, u) = NoneId
    /\ \A t \in TodoIds :
           /\ ResponseOf(ItemResource_get(todos, items, t, i, u))
                  = <<404, MsgItemNoPermission, NoneId>>
           /\ \A ok \in BOOLEAN :
                  LET r == ItemResource_delete(todos, items, t, i, u, ok)
                  IN  /\ ResponseOf(r) = <<404, MsgItemNoPermission, NoneId>>
                      /\ r.todos = todos /\ r.items = items
    /\ \A ok \in BOOLEAN :
           /\ LET r == delete_item(todos, items, i, u, ok)
              IN  /\ r.result = FALSE /\ r.error = MsgItemNoPermission /\ ~r.raised
                  /\ r.todos = todos /\ r.items = items
           /\ LET r == ItemsBulkResource_put(todos, items, u, {i}, "delete", ok)
              IN  /\ ResponseOf(r) = <<404, MsgItemNoPermission, NoneId>>
                  /\ r.todos = todos /\ r.items = items

\* C24: after a successful delete of an Item (delete_item, DELETE
\* /todos/{todo_id}/items/{id}, or the bulk action "delete" on its id) the
\* next read of that Item by its owner is answered not found (404) and a
\* second delete of the same id fails with not found and changes nothing.
Inv_C24_DeletedItemIsGone ==
    \A i \in DeletedItems :
        /\ i \notin DOMAIN items
        /\ GoneFor(i, last.user)

\* an item deleted by the bulk action while another item of the same owner,
\* not named, stays
Wit_C24 ==
    /\ last.op = "ItemsBulkResource.put"
    /\ DeletedItems # {}
    /\ \E j \in DOMAIN items : ItemOwner(todos, items, j) = last.user

\* ------------------------------------------ ownership before validation
\* none of the items the observed request names is an item of its user
NoOwnedItemNamed ==
    \A i \in last.ids \cap DOMAIN last.items :
        ItemOwner(last.todos, last.items, i) # last.user

\* none of the todos the observed request names is a todo of its user
NoOwnedTodoNamed ==
    \A t \in last.ids \cap DOMAIN last.todos : last.todos[t].user_id # last.user

\* the status or action of the observed request would not pass validation
BadStatusOrAction ==
    \/ last.op = "update_item_status" /\ last.arg \notin VALID_STATUSES
    \/ last.op = "ItemsBulkResource.put"
           /\ last.arg \notin VALID_STATUSES \cup {"delete"}
    \/ last.op = "TodoResource.put.bulk"
           /\ \/ last.arg \notin {"delete", "update_status"}
              \/ last.arg = "update_status"
                     /\ dict_get(last.data, "status", None) \in {None, ""}

\* C28: in update_item_status, bulk_update_items and bulk_update_todos the
\* ownership check comes before the validation of the status or action: when
\* the item named (or every id named) does not exist or belongs to another
\* user, the result is the not-found error of the function, whatever status
\* or action was supplied, and nothing is changed.
Inv_C28_OwnershipBeforeValidation ==
    /\ (last.op = "update_item_status" /\ NoOwnedItemNamed) =>
           /\ last.msg = MsgItemNoPermission
           /\ last.ent = NoneId
           /\ Untouched
    /\ (last.op = "ItemsBulkResource.put" /\ NoOwnedItemNamed) =>
           LET r == bulk_update_items(last.todos, last.items, last.user, last.ids,
                                      last.arg, last.commit_ok)
           IN  /\ ~r.result /\ r.error = MsgItemNoPermission /\ ~r.raised
               /\ r.todos = last.todos /\ r.items = last.items
               /\ last.ids # {} => /\ last.http = 404
                                   /\ last.msg = MsgItemNoPermission
               /\ Untouched
    /\ (last.op = "TodoResource.put.bulk" /\ NoOwnedTodoNamed) =>
           LET r == bulk_update_todos(last.todos, last.items, last.user, last.ids,
                                      last.arg, dict_get(last.data, "status", None),
                                      last.commit_ok)
           IN  /\ ~r.result /\ r.error = MsgNoMatchingTodos /\ ~r.raised
               /\ last.http = 400
               /\ last.msg = MsgNoMatchingTodos
               /\ Untouched

\* update_item_status called with an invalid status on another user's item
Wit_C28 ==
    /\ last.op = "update_item_status"
    /\ BadStatusOrAction
    /\ last.ids \subseteq DOMAIN last.items
    /\ NoOwnedItemNamed
    /\ last.msg = MsgItemNoPermission

\* ------------------------------------------------ when the database fails
\* the observed call of register_user got as far as its commit, which raised
\* for a failure of the database
RegisterCommitRaised ==
    /\ alast.op = "register_user"
    /\ alast.password # None
    /\ ~alast.commit_ok

\* C25: if the commit raises during register_user, the call returns
\* (None, "Internal server error") (HTTP 400), the transaction is rolled
\* back, the users are as before and the row of the call is not inserted by
\* a later successful commit either, so no user with that username or email
\* exists afterwards when none did before; if the query of the user raises
\* during login_user, it returns (None, "Internal server error") and issues
\* no tokens.
Inv_C25_FailureRollsBack ==
    /\ RegisterCommitRaised =>
           /\ <<alast.http, alast.msg, alast.id>> = <<400, MsgInternal, NoneId>>
           /\ users = alast.users
           /\ alast.session = {}
           /\ db_session_commit(users, alast.session) = alast.users
           /\ ~Collides(alast.users) =>
                  ~Collides(db_session_commit(users, alast.session))
    /\ (alast.op = "login_user" /\ ~alast.commit_ok) =>
           /\ <<alast.http, alast.msg, alast.id>> = <<401, MsgInternal, NoneId>>
           /\ alast.issued = {}
           /\ users = alast.users
           /\ blocklist = alast.blocklist

\* a registration whose commit raised while another user is registered and
\* nobody has the username or the email of the call
Wit_C25 ==
    /\ RegisterCommitRaised
    /\ alast.users # <<>>
    /\ ~Collides(alast.users)
    /\ alast.msg = MsgInternal

\* ------------------------------------------------- refresh after logout
\* the access token that login_user issued together with this refresh token
IssuedWith(token) == Token(token.jti - 1, token.sub, "access")

\* C29: logout revokes only the access token presented: nothing but its jti
\* is added to the blocklist, so the refresh token issued at the same login
\* and every other token stay as they were, no refresh token is ever
\* reported revoked, and POST /auth/refresh with the refresh token still
\* succeeds after the logout, returning one new access token of the same
\* user that is not revoked.
Inv_C29_LogoutRevokesOnlyPresented ==
    /\ (alast.op = "LogoutUser.post" /\ alast.http = 200) =>
           /\ blocklist = alast.blocklist \cup {alast.token.jti}
           /\ \A t \in tokens :
                  t # alast.token =>
                      (check_if_token_revoked(blocklist, t)
                           <=> check_if_token_revoked(alast.blocklist, t))
    /\ \A t \in tokens : t.type = "refresh" => ~check_if_token_revoked(blocklist, t)
    /\ (alast.op = "TokenRefreshResource.post" /\ alast.token.type = "refresh") =>
           /\ alast.http = 200
           /\ \E new \in alast.issued :
                  /\ alast.issued = {new}
                  /\ new.type = "access"
                  /\ new.sub = alast.token.sub
                  /\ new.jti \notin {t.jti : t \in tokens \ {new}}
                  /\ ~check_if_token_revoked(blocklist, new)
                  /\ jwt_required(blocklist, new).http = 0
           /\ blocklist = alast.blocklist
           /\ users = alast.users

\* a refresh with the refresh token of a login whose access token has been
\* logged out
Wit_C29 ==
    /\ alast.op = "TokenRefreshResource.post"
    /\ alast.token.type = "refresh"
    /\ IssuedWith(alast.token) \in tokens
    /\ check_if_token_revoked(alast.blocklist, IssuedWith(alast.token))
    /\ alast.http = 200

\* -------------------------------------------------------------- listings
\* the Items of a Todo, as the table holds them
ItemsUnder(I, todo_id) == {i \in DOMAIN I : I[i].todo_id = todo_id}

RECURSIVE PagesUpTo(_, _, _, _, _, _)
\* the items of pages 1..n of a listing, one page after the other
PagesUpTo(T, I, todo_id, user_id, per_page, n) ==
    IF n = 0 THEN <<>>
    ELSE PagesUpTo(T, I, todo_id, user_id, per_page, n - 1)
         \o get_items_for_todo(T, I, todo_id, user_id, n, per_page).result.items

TodosOf(T, user_id) == {t \in DOMAIN T : T[t].user_id = user_id}

Wit_C22_TodoListing ==
    /\ last.op = "get_todos"
    /\ Len(last.out) > MaxPerPage

\* ------------------------------------------------------------ overdue
\* day a is earlier in the calendar than day b
EarlierDay(a, b) ==
    \E i \in DOMAIN Dates : \E j \in DOMAIN Dates :
        i < j /\ Dates[i] = a /\ Dates[j] = b

\* C23: for every Item and every current date the serialized overdue flag
\* is true exactly when due_date is set, status is not "Completed" and
\* due_date is strictly before the current date; it is false when due_date
\* is null or is the current date; serializing leaves the stored Item as it
\* was, and the Item has no overdue column.
Inv_C23_OverdueIsComputedOnRead ==
    last.op = "ItemSchema.dump" =>
        LET obj   == last.items[last.args.id]
            today == last.args.today
        IN  /\ last.out.overdue \in BOOLEAN
            /\ last.out.overdue <=>
                   (/\ obj.due_date # None
                    /\ obj.status # "Completed"
                    /\ EarlierDay(obj.due_date, today))
            /\ (obj.due_date = None => ~last.out.overdue)
            /\ (obj.due_date = today => ~last.out.overdue)
            /\ items = last.items
            /\ todos = last.todos
            /\ "overdue" \notin DOMAIN items[last.args.id]

\* an Item that is not completed, serialized on a day after its due date
Wit_C23 ==
    /\ last.op = "ItemSchema.dump"
    /\ last.items[last.args.id].status # "Completed"
    /\ EarlierDay(last.items[last.args.id].due_date, last.args.today)
    /\ last.out.overdue

\* an Item serialized on its due date
Wit_C23_DueToday ==
    /\ last.op = "ItemSchema.dump"
    /\ last.items[last.args.id].status # "Completed"
    /\ last.items[last.args.id].due_date = last.args.today
    /\ ~last.out.overdue

\* ------------------------------------------------ status and completed
\* the observed call of update_todo found the Todo and committed
UpdatedTodo ==
    /\ last.op = "update_todo"
    /\ last.out.error = None
    /\ ~last.out.raised

\* the Todos the observed call of bulk_update_todos selected
BulkSelected == todos_in(last.todos, last.args.todo_ids, last.args.user_id)

\* the observed call of bulk_update_todos selected some Todo and its commit
\* did not fail
BulkReachedStatus ==
    /\ last.op = "bulk_update_todos"
    /\ BulkSelected # {}
    /\ last.out.error # ExcText

\* what both statements of C26 say about a call that went through: only the
\* field named changes, and it takes the value given
FieldsAreIndependent ==
    /\ (UpdatedTodo /\ last.args.data.has = {"status"}) =>
           todos = [last.todos EXCEPT ![last.args.todo_id].status =
                                          last.args.data.v.status]
    /\ (UpdatedTodo /\ last.args.data.has = {"completed"}) =>
           todos = [last.todos EXCEPT ![last.args.todo_id].completed =
                                          last.args.data.v.completed]
    /\ (last.op = "bulk_update_todos" /\ last.out.result = TRUE) =>
           todos = [t \in DOMAIN last.todos |->
                       IF t \in BulkSelected
                       THEN [last.todos[t] EXCEPT !.status = last.args.status]
                       ELSE last.todos[t]]

\* C26 as stated: an operation that sets only status leaves completed
\* unchanged, one that sets only completed leaves status unchanged, and any
\* status string is accepted by update_todo and by bulk_update_todos.
Orig_C26_AnyStatusAccepted ==
    /\ FieldsAreIndependent
    /\ (/\ last.op = "update_todo"
        /\ todo_first(last.todos, last.args.todo_id, last.args.user_id) # NoneId
        /\ ~last.out.raised) => last.out.error = None
    /\ BulkReachedStatus => last.out.result = TRUE

\* C26, amended: an operation that sets only status leaves completed (and
\* every other field and Todo) unchanged, update_todo with only completed
\* leaves status unchanged; update_todo accepts any status string, the empty
\* one included, bulk_update_todos "update_status" accepts any non-empty
\* status string and refuses the empty one with "Missing status for bulk
\* update", changing nothing.
Inv_C26_StatusAndCompletedIndependent ==
    /\ FieldsAreIndependent
    /\ (/\ last.op = "update_todo"
        /\ todo_first(last.todos, last.args.todo_id, last.args.user_id) # NoneId
        /\ ~last.out.raised) => last.out.error = None
    /\ (BulkReachedStatus /\ last.args.status # "") => last.out.result = TRUE
    /\ (BulkReachedStatus /\ last.args.status = "") =>
           /\ last.out.result = FALSE
           /\ last.out.error = MsgMissingStatus
           /\ todos = last.todos

\* a Todo whose completed flag is false is given the status "Completed" and
\* keeps the flag
Wit_C26 ==
    /\ UpdatedTodo
    /\ last.args.data.has = {"status"}
    /\ last.args.data.v.status = "Completed"
    /\ ~last.todos[last.args.todo_id].completed
    /\ last.todos[last.args.todo_id].status # "Completed"
    /\ todos[last.args.todo_id].status = "Completed"
    /\ ~todos[last.args.todo_id].completed

\* the same through the bulk operation
Wit_C26_Bulk ==
    /\ last.op = "bulk_update_todos"
    /\ last.out.result = TRUE
    /\ \E t \in BulkSelected :
           /\ ~last.todos[t].completed
           /\ last.todos[t].status # "Completed"
           /\ todos[t].status = "Completed"
           /\ ~todos[t].completed

\* ------------------------------------------- two bulk updates at once
\* client c has run a bulk status update that selected rows and reached its
\* commit
BulkStatusCall(c) ==
    /\ reg[c].pc = "done"
    /\ reg[c].op \in {"bulk_update_items", "bulk_update_todos"}
    /\ reg[c].arg \in RaceStatuses
    /\ DOMAIN reg[c].rows # {}

\* a and b are the two calls of the run, bulk status updates of one kind by
\* one user
TwoBulkStatusCalls(a, b) ==
    /\ a # b
    /\ BulkStatusCall(a)
    /\ BulkStatusCall(b)
    /\ reg[a].op = reg[b].op
    /\ reg[a].user_id = reg[b].user_id
    /\ \A c \in Clients \ {a, b} : reg[c].pc = "idle"

\* the table a bulk call writes to
TableOf(op) == IF op = "bulk_update_items" THEN items ELSE todos

\* C27: of two bulk status updates by one user that ran at once, neither is
\* refused because the other changed a row in between (a commit the
\* database lets through reports success); when both report success every
\* row both selected holds the status of one of them and every row only one
\* selected holds that one's status.
Inv_C27_LastWriteWins ==
    \A a \in Clients : \A b \in Clients :
        TwoBulkStatusCalls(a, b) =>
            /\ reg[a].commit_ok => reg[a].result = TRUE
            /\ (reg[a].result = TRUE /\ reg[b].result = TRUE) =>
                   /\ \A e \in DOMAIN reg[a].rows \cap DOMAIN reg[b].rows :
                          /\ e \in DOMAIN TableOf(reg[a].op)
                          /\ TableOf(reg[a].op)[e].status \in {reg[a].arg, reg[b].arg}
                   /\ \A e \in DOMAIN reg[a].rows \ DOMAIN reg[b].rows :
                          /\ e \in DOMAIN TableOf(reg[a].op)
                          /\ TableOf(reg[a].op)[e].status = reg[a].arg

\* two bulk updates of Items with different statuses, both loaded before
\* either committed, that selected a common Item and both succeeded
Wit_C27 ==
    \E a \in Clients : \E b \in Clients :
        /\ TwoBulkStatusCalls(a, b)
        /\ reg[a].op = "bulk_update_items"
        /\ reg[a].arg # reg[b].arg
        /\ reg[a].result = TRUE /\ reg[b].result = TRUE
        /\ \E e \in DOMAIN reg[a].rows \cap DOMAIN reg[b].rows :
               /\ reg[a].rows[e] = reg[b].rows[e]
               /\ reg[a].rows[e] \notin {reg[a].arg, reg[b].arg}
        /\ DOMAIN reg[a].rows \ DOMAIN reg[b].rows # {}

\* ------------------------------------------- an add while the Todo goes
\* client c has run add_item_to_todo to its end for a Todo that is gone now
AddedUnderDeleted(c) ==
    /\ reg[c].pc = "done"
    /\ reg[c].op = "add_item_to_todo"
    /\ reg[c].commit_ok
    /\ reg[c].ids \cap DOMAIN todos = {}

\* C30: when add_item_to_todo for a Todo interleaves with delete_todo or a
\* bulk delete of that Todo, no committed Item has a todo_id that refers to
\* no existing Todo: the add fails with the Todo-not-found error or the new
\* Item is removed together with the Todo.
Inv_C30_NoOrphanItem ==
    /\ \A i \in DOMAIN items : items[i].todo_id \in DOMAIN todos
    /\ \A c \in Clients :
           AddedUnderDeleted(c) =>
               \/ reg[c].result = NoneId /\ reg[c].error = MsgTodoNoPermission
               \/ reg[c].result # NoneId /\ reg[c].result \notin DOMAIN items

\* the add found the Todo, the delete committed, the add committed after it:
\* the new Item is in the table and its Todo is not
Orphan_C30 ==
    \E c \in Clients : \E d \in Clients :
        /\ AddedUnderDeleted(c)
        /\ reg[d].pc = "done"
        /\ reg[d].op \in {"delete_todo", "bulk_update_todos"}
        /\ reg[d].arg = "delete"
        /\ reg[d].result = TRUE
        /\ reg[c].result \in DOMAIN items
        /\ items[reg[c].result].todo_id \notin DOMAIN todos

====
